---------------------------- MODULE Spec2Model ----------------------------
(***************************************************************************)
(* Interrupt-driven UART transport (circular byte queues shared between    *)
(* the interrupt context and the main loop) and the command console built  *)
(* on it, from the ECE3411 lab sources.                                    *)
(***************************************************************************)
EXTENDS Integers, Sequences, FiniteSets, TLC

(***************************************************************************)
(* Bounds.  The queue capacities of the sources (64, 128) are scaled down; *)
(* every other bound limits the inputs the environment offers.             *)
(***************************************************************************)
\* capacity of the lab5 circular_buffer_t (BUFFER_SIZE, 64 in the source)
BUFFER_SIZE == 3
\* number of distinct data byte values offered to the queues
NData == 2
\* cap on the number of successful puts recorded by one behaviour
MaxOps == 6
\* capacity of the UART queues (UART_BUFFER_SIZE, 64 in the source)
UART_BUFFER_SIZE == 3
\* cap on the number of bytes uart_send_char accepts in one behaviour
MaxSent == 5
\* cap on the number of bytes the receiver stores in one behaviour
MaxRecv == 5
\* longest string handed to uart_send_string
MaxStrLen == 256
\* cap on the bytes put on each lab5 queue when both contexts run
MaxRace == 3
\* size of the console's line buffer (MAX_CMD_LENGTH, 64 in the source)
MAX_CMD_LENGTH == 3
\* capacity of the console's command queue (CMD_BUFFER_SIZE, 128 in the source)
CMD_BUFFER_SIZE == 4
\* cap on the number of bytes the terminal sends to the console
MaxFeed == 4
\* most bytes the terminal lets wait in the inbound queue of the console
MaxPending == 1
\* cap on the number of bytes of a terminal that sends letters and CR only
MaxLineFeed == 5
\* size of the menu's scratch buffer (char input_buffer[64] in the source)
INPUT_BUFFER_SIZE == 5
\* the terminal enters the menu values 0..MaxNear and 255..256+MaxNear
MaxNear == 12
\* cap on the number of menu dialogs the terminal types
MaxDialogs == 2
\* RTC overflow interrupts served
MaxTicks == 3
\* lines dispatched to the clock's handlers
MaxTimeLines == 3
\* bytes received while the transmit side is observed
MaxUartRecv == 1
\* cap on the number of bytes of a terminal that sends control bytes
MaxCtlFeed == 3
\* keys typed into the menu by a terminal that types freely
MaxKeys == 4

Data == 1..NData

\* uint8_t arithmetic
U8(x) == x % 256

VARIABLES
  \* ---- lab5/main.c, one context ----
  tx_buffer,      \* circular_buffer_t tx_buffer
  putlog,         \* history: bytes stored by buffer_put, in call order
  getlog,         \* history: bytes returned by buffer_get, in call order
  last,           \* history: the operation performed last and its outcome
  \* ---- adcsingle/include/uart.c, transmit side ----
  uart_tx_buffer, \* cbuf behind uart_tx_buffer
  DREIE,          \* USART3.CTRLA & USART_DREIE_bm: the DRE interrupt is armed
  pc,             \* position of the main loop inside uart_send_char
  success,        \* uart_send_char's local
  sent,           \* history: bytes for which uart_send_char's put succeeded
  wire,           \* history: bytes written to USART3.TXDATAL
  txev,           \* history: the transmit-side step performed last
  \* ---- adcsingle/include/uart.c, receive side ----
  uart_rx_buffer, \* cbuf behind uart_rx_buffer
  rxin,           \* history: bytes the receive ISR stored
  rxout,          \* history: bytes uart_receive_char returned
  rxev,           \* history: the receive-side step performed last
  rxdropped,      \* history: some byte found the inbound queue full
  \* ---- adcsingle/include/uart.c, uart_send_string ----
  spc,            \* position of the main loop inside uart_send_string
  str_n,          \* strlen(str) of the call
  str_i,          \* number of characters str has been advanced by
  count,          \* uart_send_string's local uint8_t count
  queued,         \* history: characters of str that entered the outbound queue
  ret,            \* the uint8_t uart_send_string returned
  \* ---- lab5/main.c, both contexts (tx_buffer, putlog, getlog as above) ----
  rx_buffer,      \* circular_buffer_t rx_buffer
  CTRLA_DREIE,    \* USART3.CTRLA & USART_DREIE_bm of lab5
  mpc,            \* position of the main loop inside buffer_put / buffer_get
  m_data,         \* the main loop's data argument / *data
  m_reg,          \* the register holding buf->count during count++ / count--
  rxputlog,       \* history: bytes the RXC ISR stored in rx_buffer
  rxgetlog,       \* history: bytes USART3_ReceiveChar returned
  \* ---- AOS/include/ui.c, the console (on uart_rx_buffer, uart_tx_buffer) ----
  current_cmd_line,  \* char current_cmd_line[MAX_CMD_LENGTH]
  current_cmd_index, \* uint8_t current_cmd_index
  cmd_line_buffer,   \* cbuf behind cmd_line_buffer
  cpc,               \* position of the main loop inside ui_process_commands
  aos_p,             \* aos_send: the characters of str not yet queued
  cmd_line,          \* execute_next_command: the line taken from the queue
  fed,               \* history: number of bytes the terminal has sent
  typed,             \* history: printable bytes consumed since the last CR/LF
  typed_ok,          \* history: only printable bytes since then, and all fitted
  raw,               \* history: every byte consumed since the last CR/LF
  pending,           \* history: the lines completed and not yet dispatched
  was_full,          \* history: the command queue has been full
  \* ---- AOS/include/ui.c and rtclab/include/ui.c, the dispatcher (on cmd_line) ----
  xpc,               \* position inside execute_next_command
  variant,           \* which console's dispatcher runs
  num_parsed,        \* execute_next_command's local
  calls,             \* history: the handler calls of the last invocation
  out,               \* history: the messages of the last invocation
  l_reg,             \* history: handler of the command the line was spelt from
  l_name,            \* history: the first token of the line as typed
  l_body,            \* history: the parameter text of the line as typed
  \* ---- uart2/main.c, the menu (on uart_rx_buffer) ----
  state,             \* static enum state of prompt_and_handle_menu
  input_buffer,      \* static char input_buffer[64]
  input_index,       \* static uint8_t input_index
  prompt_shown,      \* static bool prompt_shown
  freq_hz,           \* main's uint8_t freq_hz
  led_pos,           \* main's uint8_t led_pos
  script,            \* the bytes of the dialog the terminal has still to send
  dialogs,           \* history: number of dialogs the terminal has started
  m_out,             \* history: what the last call printed, in order
  dialog,            \* history: bytes consumed since the last byte taken in MENU_IDLE
  upd,               \* history: the field updates made since then
  f0,                \* history: freq_hz when that byte was taken
  p0,                \* history: led_pos when that byte was taken
  prompts,           \* history: top-level prompts printed since MENU_IDLE was entered
  \* ---- AOS/include/ui.c and ext_clock/main.c, the clock ----
  current_time,        \* volatile rtc_time_t current_time
  alarm_time,          \* volatile rtc_time_t alarm_time
  alarm_set,           \* volatile bool alarm_set
  alarm_triggered,     \* volatile bool alarm_triggered
  SREG_I,              \* the global interrupt enable bit of SREG
  rtc_interrupt_count, \* ext_clock/main.c rtc_interrupt_count
  tpc,                 \* position of the main loop inside the handler
  t_handler,           \* the handler execute_next_command has called
  t_arg,               \* the handler's params argument
  new_time,            \* the handler's local new_time / new_alarm
  t_msg,               \* history: what the handler of the last line printed
  t_lines,             \* history: number of lines dispatched so far
  t_shown,               \* ui_display_time: the fields read for aos_printf, -1 before the read
  held                 \* history: every value current_time has held

qvars == <<tx_buffer, putlog, getlog, last>>
txvars == <<uart_tx_buffer, DREIE, pc, success, sent, wire, txev>>
rxvars == <<uart_rx_buffer, rxin, rxout, rxev, rxdropped>>
strvars == <<spc, str_n, str_i, count, queued, ret>>
racevars == <<rx_buffer, CTRLA_DREIE, mpc, m_data, m_reg, rxputlog, rxgetlog>>

linevars == <<current_cmd_line, current_cmd_index, cmd_line_buffer, cpc, aos_p,
              cmd_line, fed, typed, typed_ok, raw, pending, was_full>>

\* the console's variables without cmd_line
linerest == <<current_cmd_line, current_cmd_index, cmd_line_buffer, cpc, aos_p,
              fed, typed, typed_ok, raw, pending, was_full>>
dispvars == <<xpc, variant, num_parsed, calls, out, l_reg, l_name, l_body>>
\* the variables of the applications on top of transport and console
menuvars == <<state, input_buffer, input_index, prompt_shown, freq_hz, led_pos,
              script, dialogs, m_out, dialog, upd, f0, p0, prompts>>
\* the clock's variables
timevars == <<current_time, alarm_time, alarm_set, alarm_triggered, SREG_I,
              rtc_interrupt_count, tpc, t_handler, t_arg, new_time, t_msg, t_lines,
              t_shown, held>>
appvars == <<dispvars, menuvars, timevars>>

vars == <<qvars, txvars, rxvars, strvars, racevars, linevars, appvars>>
\* everything but the lab5 queues and their histories
othervars == <<last, txvars, rxvars, strvars, linevars, appvars>>
\* the histories of the transport, which the console leaves alone
txhist == <<pc, success, sent, wire, txev>>
rxhist == <<rxin, rxout, rxev, rxdropped>>

(***************************************************************************)
(* lab5/main.c: circular_buffer_t, buffer_put, buffer_get                  *)
(***************************************************************************)
circular_buffer_t ==
  [buffer |-> [i \in 0..(BUFFER_SIZE - 1) |-> 0], head |-> 0, tail |-> 0, count |-> 0]

\* mutant: the full test admits one element too many
buffer_put_off_by_one(buf, data) ==
  IF buf.count <= BUFFER_SIZE
    THEN [buf EXCEPT !.buffer[buf.head] = data,
                     !.head = (buf.head + 1) % BUFFER_SIZE,
                     !.count = U8(buf.count + 1)]
    ELSE buf

\* mutant: the slot is written after head was advanced
buffer_put_late_store(buf, data) ==
  IF buf.count < BUFFER_SIZE
    THEN [buf EXCEPT !.buffer[(buf.head + 1) % BUFFER_SIZE] = data,
                     !.head = (buf.head + 1) % BUFFER_SIZE,
                     !.count = U8(buf.count + 1)]
    ELSE buf

buffer_put(buf, data) ==
  IF buf.count < BUFFER_SIZE
    THEN [buf EXCEPT !.buffer[buf.head] = data,
                     !.head = (buf.head + 1) % BUFFER_SIZE,
                     !.count = U8(buf.count + 1)]
    ELSE buf

\* mutant: count is not decremented
buffer_get_keeps_count(buf) ==
  IF buf.count > 0
    THEN [buf  |-> [buf EXCEPT !.tail = (buf.tail + 1) % BUFFER_SIZE],
          ret  |-> TRUE,
          data |-> buf.buffer[buf.tail]]
    ELSE [buf |-> buf, ret |-> FALSE, data |-> 0]

\* result: the buffer afterwards, the bool returned, the byte stored to *data
buffer_get(buf) ==
  IF buf.count > 0
    THEN [buf  |-> [buf EXCEPT !.tail = (buf.tail + 1) % BUFFER_SIZE,
                               !.count = U8(buf.count + 255)],
          ret  |-> TRUE,
          data |-> buf.buffer[buf.tail]]
    ELSE [buf |-> buf, ret |-> FALSE, data |-> 0]

\* the bytes a buffer holds, oldest first: count slots starting at tail
RECURSIVE SlotsFrom(_, _, _)
SlotsFrom(buf, i, n) ==
  IF n = 0 THEN <<>>
  ELSE <<buf.buffer[i % BUFFER_SIZE]>> \o SlotsFrom(buf, i + 1, n - 1)

Contents(buf) == SlotsFrom(buf, buf.tail, buf.count)

(***************************************************************************)
(* circularbuff.h: the byte queue behind the UART driver and the console,   *)
(* reached through the circular_buf_ functions.                            *)
(***************************************************************************)
circular_buf_init(size) ==
  [buffer |-> [i \in 0..(size - 1) |-> 0], head |-> 0, tail |-> 0, count |-> 0,
   max |-> size]

circular_buf_full(cb) == cb.count = cb.max
circular_buf_empty(cb) == cb.count = 0
circular_buf_size(cb) == cb.count
circular_buf_capacity(cb) == cb.max

\* result: the queue afterwards and the int returned (0 on success, -1 if full)
circular_buf_try_put(cb, data) ==
  IF ~circular_buf_full(cb)
    THEN [buf |-> [cb EXCEPT !.buffer[cb.head] = data,
                             !.head = (cb.head + 1) % cb.max,
                             !.count = cb.count + 1],
          rc  |-> 0]
    ELSE [buf |-> cb, rc |-> -1]

\* result: the queue afterwards, the int returned (0 on success, -1 if empty)
\* and the byte stored through the out-parameter
circular_buf_get(cb) ==
  IF ~circular_buf_empty(cb)
    THEN [buf  |-> [cb EXCEPT !.tail = (cb.tail + 1) % cb.max,
                              !.count = cb.count - 1],
          rc   |-> 0,
          data |-> cb.buffer[cb.tail]]
    ELSE [buf |-> cb, rc |-> -1, data |-> 0]

\* the bytes a cbuf holds, oldest first
RECURSIVE CbSlotsFrom(_, _, _)
CbSlotsFrom(cb, i, n) ==
  IF n = 0 THEN <<>>
  ELSE <<cb.buffer[i % cb.max]>> \o CbSlotsFrom(cb, i + 1, n - 1)

CbContents(cb) == CbSlotsFrom(cb, cb.tail, cb.count)

(***************************************************************************)
(* adcsingle/include/uart.c: the interrupt-driven API.  The state is the   *)
(* one uart_init(3, ...) leaves: both handles and active_usart are set, so *)
(* the NULL tests of the wrappers are false.                               *)
(***************************************************************************)
active_usart == TRUE

\* static bool buffer_put(cbuf_handle_t, char) of uart.c
uart_buffer_put(buf, data) ==
  LET r == circular_buf_try_put(buf, data) IN [buf |-> r.buf, ret |-> (r.rc = 0)]

\* static bool buffer_get(cbuf_handle_t, char *) of uart.c
uart_buffer_get(buf) ==
  LET r == circular_buf_get(buf) IN
    IF r.rc = 0 THEN [buf |-> r.buf, ret |-> TRUE, data |-> r.data]
                ELSE [buf |-> r.buf, ret |-> FALSE, data |-> 0]

\* mutant: the DRE interrupt is never enabled
uart_send_char_arm_never(ok, dreie) == dreie

\* an arming statement written with ^= instead of |=
uart_send_char_arm_toggles(ok, dreie) ==
  IF ok /\ active_usart THEN ~dreie ELSE dreie

\* uart_send_char, second statement: arm the DRE interrupt after a successful put
uart_send_char_arm(ok, dreie) ==
  IF ok /\ active_usart THEN TRUE ELSE dreie

uart_tx_isr_handler(buf) == uart_buffer_get(buf)

\* mutant: the ISR leaves the interrupt armed when the queue is empty
USART3_DRE_vect_no_disarm(buf, dreie) ==
  LET r == uart_tx_isr_handler(buf) IN
    IF r.ret THEN [buf |-> r.buf, dreie |-> dreie, tx |-> <<r.data>>]
             ELSE [buf |-> r.buf, dreie |-> dreie, tx |-> <<>>]

\* mutant: the ISR disarms after every byte it transmits
USART3_DRE_vect_disarm_each(buf, dreie) ==
  LET r == uart_tx_isr_handler(buf) IN
    IF r.ret THEN [buf |-> r.buf, dreie |-> FALSE, tx |-> <<r.data>>]
             ELSE [buf |-> r.buf, dreie |-> FALSE, tx |-> <<>>]

\* an ISR that disarms as soon as it has taken the last queued byte
USART3_DRE_vect_disarm_on_last(buf, dreie) ==
  LET r == uart_tx_isr_handler(buf) IN
    IF r.ret THEN [buf |-> r.buf, dreie |-> (dreie /\ ~circular_buf_empty(r.buf)), tx |-> <<r.data>>]
             ELSE [buf |-> r.buf, dreie |-> FALSE, tx |-> <<>>]

\* ISR(USART3_DRE_vect); tx is what it writes to TXDATAL (one byte or nothing)
USART3_DRE_vect(buf, dreie) ==
  LET r == uart_tx_isr_handler(buf) IN
    IF r.ret THEN [buf |-> r.buf, dreie |-> dreie, tx |-> <<r.data>>]
             ELSE [buf |-> r.buf, dreie |-> FALSE, tx |-> <<>>]

(***************************************************************************)
(* Transmit side: the main loop calls uart_send_char, one statement per    *)
(* step; the DRE ISR runs to completion between any two of them whenever   *)
(* its interrupt is armed.                                                 *)
(***************************************************************************)
TxInit ==
  /\ uart_tx_buffer = circular_buf_init(UART_BUFFER_SIZE)
  /\ DREIE = FALSE
  /\ pc = "idle"
  /\ success = FALSE
  /\ sent = <<>>
  /\ wire = <<>>
  /\ txev = [op |-> "none", ok |-> FALSE]

\* bool success = buffer_put(uart_tx_buffer, c);
SendCharPut(c) ==
  /\ pc = "idle"
  /\ Len(sent) < MaxSent
  /\ LET r == uart_buffer_put(uart_tx_buffer, c) IN
       /\ uart_tx_buffer' = r.buf
       /\ success' = r.ret
       /\ sent' = IF r.ret THEN Append(sent, c) ELSE sent
       /\ txev' = [op |-> "put", ok |-> r.ret]
  /\ pc' = "arm"
  /\ UNCHANGED <<DREIE, wire, qvars, rxvars, strvars, racevars, linevars, appvars>>

\* if (success && active_usart) CTRLA |= USART_DREIE_bm; return success;
SendCharArm ==
  /\ pc = "arm"
  /\ DREIE' = uart_send_char_arm(success, DREIE)
  /\ txev' = [op |-> "return", ok |-> success]
  /\ pc' = "idle"
  /\ UNCHANGED <<uart_tx_buffer, success, sent, wire, qvars, rxvars, strvars, racevars, linevars, appvars>>

TxISR ==
  /\ DREIE
  /\ LET r == USART3_DRE_vect(uart_tx_buffer, DREIE) IN
       /\ uart_tx_buffer' = r.buf
       /\ DREIE' = r.dreie
       /\ wire' = wire \o r.tx
       /\ txev' = [op |-> "isr", ok |-> (r.tx # <<>>)]
  /\ UNCHANGED <<pc, success, sent, qvars, rxvars, strvars, racevars, linevars, appvars>>

TxNext ==
  \/ \E c \in Data : SendCharPut(c)
  \/ SendCharArm
  \/ TxISR


(***************************************************************************)
(* Receive side: ISR(USART3_RXC_vect) stores the byte it read from RXDATAL *)
(* through uart_rx_isr_handler; the main loop polls uart_receive_char.     *)
(***************************************************************************)
\* mutant: a full queue gives up its oldest byte to make room
uart_rx_isr_handler_overwrite(buf, received_char) ==
  IF circular_buf_full(buf)
    THEN uart_buffer_put(uart_buffer_get(buf).buf, received_char).buf
    ELSE uart_buffer_put(buf, received_char).buf

\* void uart_rx_isr_handler(char): the result of buffer_put is discarded
uart_rx_isr_handler(buf, received_char) == uart_buffer_put(buf, received_char).buf

\* a read that goes on to the next byte when one more is waiting
uart_receive_char_takes_two(buf) ==
  LET r == uart_buffer_get(buf) IN
    IF r.ret /\ ~circular_buf_empty(r.buf) THEN uart_buffer_get(r.buf) ELSE r

uart_receive_char(buf) == uart_buffer_get(buf)

RxInit ==
  /\ uart_rx_buffer = circular_buf_init(UART_BUFFER_SIZE)
  /\ rxin = <<>>
  /\ rxout = <<>>
  /\ rxev = [op |-> "none", ok |-> FALSE]
  /\ rxdropped = FALSE

\* ISR(USART3_RXC_vect) { char c = USART3.RXDATAL; uart_rx_isr_handler(c); }
RxISR(b) ==
  /\ Len(rxin) < MaxRecv
  /\ uart_rx_buffer' = uart_rx_isr_handler(uart_rx_buffer, b)
  /\ rxin' = IF uart_rx_buffer' # uart_rx_buffer THEN Append(rxin, b) ELSE rxin
  /\ rxev' = [op |-> "isr", ok |-> (uart_rx_buffer' # uart_rx_buffer)]
  /\ rxdropped' = (rxdropped \/ uart_rx_buffer' = uart_rx_buffer)
  /\ UNCHANGED <<rxout, qvars, txvars, strvars, racevars, linevars, appvars>>

ReceiveChar ==
  /\ LET r == uart_receive_char(uart_rx_buffer) IN
       /\ uart_rx_buffer' = r.buf
       /\ rxout' = IF r.ret THEN Append(rxout, r.data) ELSE rxout
       /\ rxev' = [op |-> "receive", ok |-> r.ret]
  /\ UNCHANGED <<rxin, rxdropped, qvars, txvars, strvars, racevars, linevars, appvars>>

RxNext ==
  \/ \E b \in Data : RxISR(b)
  \/ ReceiveChar

\* the RXC ISR of a terminal that sends at most MaxUartRecv bytes
UartRxISR(b) ==
  /\ Len(rxin) < MaxUartRecv
  /\ RxISR(b)

\* both directions of the driver in one program
UartNext ==
  \/ TxNext
  \/ \E b \in Data : UartRxISR(b)
  \/ ReceiveChar


(***************************************************************************)
(* One context calling buffer_put and buffer_get on tx_buffer.             *)
(***************************************************************************)
QInit ==
  /\ tx_buffer = circular_buffer_t
  /\ putlog = <<>>
  /\ getlog = <<>>
  /\ last = [op |-> "none", ok |-> FALSE, data |-> 0]

QPut(d) ==
  /\ Len(putlog) < MaxOps
  /\ tx_buffer' = buffer_put(tx_buffer, d)
  /\ putlog' = IF tx_buffer' # tx_buffer THEN Append(putlog, d) ELSE putlog
  /\ last' = [op |-> "put", ok |-> (tx_buffer' # tx_buffer), data |-> d]
  /\ UNCHANGED <<getlog, txvars, rxvars, strvars, racevars, linevars, appvars>>

QGet ==
  /\ LET r == buffer_get(tx_buffer) IN
       /\ tx_buffer' = r.buf
       /\ getlog' = IF r.ret THEN Append(getlog, r.data) ELSE getlog
       /\ last' = [op |-> "get", ok |-> r.ret, data |-> r.data]
  /\ UNCHANGED <<putlog, txvars, rxvars, strvars, racevars, linevars, appvars>>

QNext ==
  \/ \E d \in Data : QPut(d)
  \/ QGet

(***************************************************************************)
(* uart_send_string: the main loop runs the while loop one statement per   *)
(* step, the DRE ISR runs in between whenever its interrupt is armed.      *)
(***************************************************************************)
\* the k-th character of the string handed to uart_send_string, k = 1, 2, ...
Str(k) == ((k - 1) % NData) + 1

\* the string lengths tried: empty, short, past the queue capacity, and up
\* to the longest
StrLens == (0..(UART_BUFFER_SIZE + 2)) \cup {MaxStrLen - 1, MaxStrLen}

StrInit ==
  /\ spc = "idle"
  /\ str_n = 0
  /\ str_i = 0
  /\ count = 0
  /\ queued = 0
  /\ ret = 0

\* uint8_t count = 0;
SendStringCall(n) ==
  /\ spc = "idle"
  /\ spc' = "test"
  /\ str_n' = n
  /\ str_i' = 0
  /\ count' = 0
  /\ UNCHANGED <<queued, ret, qvars, txvars, rxvars, racevars, linevars, appvars>>

\* while (*str && uart_send_char(*str)): the put inside uart_send_char
SendStringPut ==
  /\ spc = "test"
  /\ str_i < str_n
  /\ LET r == uart_buffer_put(uart_tx_buffer, Str(str_i + 1)) IN
       /\ uart_tx_buffer' = r.buf
       /\ success' = r.ret
       /\ queued' = IF r.ret THEN queued + 1 ELSE queued
  /\ spc' = "arm"
  /\ UNCHANGED <<str_n, str_i, count, ret, DREIE, pc, sent, wire, txev, qvars, rxvars, racevars, linevars, appvars>>

\* the rest of uart_send_char, then the loop body { str++; count++; } or,
\* when the send failed, return count;
SendStringArm ==
  /\ spc = "arm"
  /\ DREIE' = uart_send_char_arm(success, DREIE)
  /\ IF success
       THEN /\ str_i' = str_i + 1
            /\ count' = U8(count + 1)
            /\ spc' = "test"
            /\ ret' = ret
       ELSE /\ ret' = count
            /\ spc' = "returned"
            /\ UNCHANGED <<str_i, count>>
  /\ UNCHANGED <<str_n, queued, uart_tx_buffer, success, pc, sent, wire, txev, qvars, rxvars, racevars, linevars, appvars>>

\* *str == 0: return count;
SendStringEnd ==
  /\ spc = "test"
  /\ str_i = str_n
  /\ ret' = count
  /\ spc' = "returned"
  /\ UNCHANGED <<str_n, str_i, count, queued, qvars, txvars, rxvars, racevars, linevars, appvars>>

DreISR ==
  /\ DREIE
  /\ LET r == USART3_DRE_vect(uart_tx_buffer, DREIE) IN
       /\ uart_tx_buffer' = r.buf
       /\ DREIE' = r.dreie
  /\ UNCHANGED <<pc, success, sent, wire, txev, qvars, rxvars, strvars, racevars, linevars, appvars>>

StrNext ==
  \/ \E n \in StrLens : SendStringCall(n)
  \/ SendStringPut
  \/ SendStringArm
  \/ SendStringEnd
  \/ DreISR

(***************************************************************************)
(* lab5/main.c with both contexts.  The main loop runs USART3_SendChar     *)
(* (buffer_put on tx_buffer, then the arming store) and USART3_ReceiveChar *)
(* (buffer_get on rx_buffer) one memory access per step; buf->count++ and  *)
(* buf->count-- on the volatile uint8_t are a load and a store.  The two   *)
(* ISRs run to completion between any two steps.                           *)
(***************************************************************************)
RaceInit ==
  /\ rx_buffer = circular_buffer_t
  /\ CTRLA_DREIE = TRUE        \* USART3_Init: CTRLA = RXCIE | DREIE
  /\ mpc = "idle"
  /\ m_data = 0
  /\ m_reg = 0
  /\ rxputlog = <<>>
  /\ rxgetlog = <<>>

\* USART3_SendChar(data) is entered
L5SendCall(d) ==
  /\ mpc = "idle"
  /\ Len(putlog) < MaxRace
  /\ mpc' = "put_check"
  /\ m_data' = d
  /\ UNCHANGED <<tx_buffer, putlog, getlog, rx_buffer, CTRLA_DREIE, m_reg,
                 rxputlog, rxgetlog, othervars>>

\* if (buf->count < BUFFER_SIZE)
L5PutCheck ==
  /\ mpc = "put_check"
  /\ mpc' = IF tx_buffer.count < BUFFER_SIZE THEN "put_store" ELSE "send_arm"
  /\ UNCHANGED <<tx_buffer, putlog, getlog, rx_buffer, CTRLA_DREIE, m_data, m_reg,
                 rxputlog, rxgetlog, othervars>>

\* buf->buffer[buf->head] = data;
L5PutStore ==
  /\ mpc = "put_store"
  /\ tx_buffer' = [tx_buffer EXCEPT !.buffer[tx_buffer.head] = m_data]
  /\ putlog' = Append(putlog, m_data)
  /\ mpc' = "put_head"
  /\ UNCHANGED <<getlog, rx_buffer, CTRLA_DREIE, m_data, m_reg,
                 rxputlog, rxgetlog, othervars>>

\* buf->head = (buf->head + 1) % BUFFER_SIZE;
L5PutHead ==
  /\ mpc = "put_head"
  /\ tx_buffer' = [tx_buffer EXCEPT !.head = (tx_buffer.head + 1) % BUFFER_SIZE]
  /\ mpc' = "put_load"
  /\ UNCHANGED <<putlog, getlog, rx_buffer, CTRLA_DREIE, m_data, m_reg,
                 rxputlog, rxgetlog, othervars>>

\* buf->count++ : load
L5PutLoad ==
  /\ mpc = "put_load"
  /\ m_reg' = tx_buffer.count
  /\ mpc' = "put_inc"
  /\ UNCHANGED <<tx_buffer, putlog, getlog, rx_buffer, CTRLA_DREIE, m_data,
                 rxputlog, rxgetlog, othervars>>

\* buf->count++ : store
L5PutInc ==
  /\ mpc = "put_inc"
  /\ tx_buffer' = [tx_buffer EXCEPT !.count = U8(m_reg + 1)]
  /\ mpc' = "send_arm"
  /\ UNCHANGED <<putlog, getlog, rx_buffer, CTRLA_DREIE, m_data, m_reg,
                 rxputlog, rxgetlog, othervars>>

\* USART3.CTRLA |= USART_DREIE_bm; and USART3_SendChar returns
L5SendArm ==
  /\ mpc = "send_arm"
  /\ CTRLA_DREIE' = TRUE
  /\ mpc' = "idle"
  /\ UNCHANGED <<tx_buffer, putlog, getlog, rx_buffer, m_data, m_reg,
                 rxputlog, rxgetlog, othervars>>

\* USART3_ReceiveChar(&data) is entered
L5RecvCall ==
  /\ mpc = "idle"
  /\ mpc' = "get_check"
  /\ UNCHANGED <<tx_buffer, putlog, getlog, rx_buffer, CTRLA_DREIE, m_data, m_reg,
                 rxputlog, rxgetlog, othervars>>

\* if (buf->count > 0) ... else return false;
L5GetCheck ==
  /\ mpc = "get_check"
  /\ mpc' = IF rx_buffer.count > 0 THEN "get_read" ELSE "idle"
  /\ UNCHANGED <<tx_buffer, putlog, getlog, rx_buffer, CTRLA_DREIE, m_data, m_reg,
                 rxputlog, rxgetlog, othervars>>

\* *data = buf->buffer[buf->tail];
L5GetRead ==
  /\ mpc = "get_read"
  /\ m_data' = rx_buffer.buffer[rx_buffer.tail]
  /\ rxgetlog' = Append(rxgetlog, rx_buffer.buffer[rx_buffer.tail])
  /\ mpc' = "get_tail"
  /\ UNCHANGED <<tx_buffer, putlog, getlog, rx_buffer, CTRLA_DREIE, m_reg,
                 rxputlog, othervars>>

\* buf->tail = (buf->tail + 1) % BUFFER_SIZE;
L5GetTail ==
  /\ mpc = "get_tail"
  /\ rx_buffer' = [rx_buffer EXCEPT !.tail = (rx_buffer.tail + 1) % BUFFER_SIZE]
  /\ mpc' = "get_load"
  /\ UNCHANGED <<tx_buffer, putlog, getlog, CTRLA_DREIE, m_data, m_reg,
                 rxputlog, rxgetlog, othervars>>

\* buf->count-- : load
L5GetLoad ==
  /\ mpc = "get_load"
  /\ m_reg' = rx_buffer.count
  /\ mpc' = "get_dec"
  /\ UNCHANGED <<tx_buffer, putlog, getlog, rx_buffer, CTRLA_DREIE, m_data,
                 rxputlog, rxgetlog, othervars>>

\* buf->count-- : store; return true;
L5GetDec ==
  /\ mpc = "get_dec"
  /\ rx_buffer' = [rx_buffer EXCEPT !.count = U8(m_reg + 255)]
  /\ mpc' = "idle"
  /\ UNCHANGED <<tx_buffer, putlog, getlog, CTRLA_DREIE, m_data, m_reg,
                 rxputlog, rxgetlog, othervars>>

\* ISR(USART3_RXC_vect) { buffer_put(&rx_buffer, USART3.RXDATAL); }
L5RxISR(b) ==
  /\ Len(rxputlog) < MaxRace
  /\ rx_buffer' = buffer_put(rx_buffer, b)
  /\ rxputlog' = IF rx_buffer' # rx_buffer THEN Append(rxputlog, b) ELSE rxputlog
  /\ UNCHANGED <<tx_buffer, putlog, getlog, CTRLA_DREIE, mpc, m_data, m_reg,
                 rxgetlog, othervars>>

\* ISR(USART3_DRE_vect): transmit the next byte or disarm
L5TxISR ==
  /\ CTRLA_DREIE
  /\ LET r == buffer_get(tx_buffer) IN
       /\ tx_buffer' = r.buf
       /\ getlog' = IF r.ret THEN Append(getlog, r.data) ELSE getlog
       /\ CTRLA_DREIE' = IF r.ret THEN CTRLA_DREIE ELSE FALSE
  /\ UNCHANGED <<putlog, rx_buffer, mpc, m_data, m_reg, rxputlog, rxgetlog, othervars>>

RaceNext ==
  \/ \E d \in Data : L5SendCall(d)
  \/ L5PutCheck
  \/ L5PutStore
  \/ L5PutHead
  \/ L5PutLoad
  \/ L5PutInc
  \/ L5SendArm
  \/ L5RecvCall
  \/ L5GetCheck
  \/ L5GetRead
  \/ L5GetTail
  \/ L5GetLoad
  \/ L5GetDec
  \/ \E b \in Data : L5RxISR(b)
  \/ L5TxISR

(***************************************************************************)
(* AOS/include/ui.c: the console.  ui_process_commands runs                *)
(* collect_uart_input, one loop iteration per step, then                   *)
(* execute_next_command; aos_send runs one uart_send_char per step and     *)
(* retries while the outbound queue is full.  The terminal's bytes arrive  *)
(* through the RXC ISR and the DRE ISR drains the outbound queue.          *)
(***************************************************************************)
CR == 13
LF == 10
BS == 8
DEL == 127
BEL == 7
NUL == 0

\* the bytes the terminal sends: both terminators, both erase keys, a control
\* byte without meaning, and two letters
ConsoleBytes == {CR, LF, BS, DEL, BEL, 65, 66}

\* a test for printable characters without its lower bound
IsPrintable_no_lower_bound(ch) == ch <= 126

\* ch >= 32 && ch <= 126
IsPrintable(ch) == ch >= 32 /\ ch <= 126

\* "\r\n", "\b \b" and "AOS> "
StrCrLf == <<13, 10>>
StrErase == <<8, 32, 8>>
StrPrompt == <<65, 79, 83, 62, 32>>

\* an erase that empties the line buffer instead of stepping back
erase_last_clears_line(index) == 0

\* current_cmd_index--: the cursor after an erase on a non-empty line buffer
erase_last(index) == U8(index + 255)

\* a bound test that keeps no room for the terminator
line_has_room_to_the_end(index) == index < MAX_CMD_LENGTH

\* if (current_cmd_index < MAX_CMD_LENGTH - 1)
line_has_room(index) == index < MAX_CMD_LENGTH - 1

\* uart_send_char as one step: the queue and the armed state afterwards
uart_send_char(buf, dreie, c) ==
  LET r == uart_buffer_put(buf, c) IN
    [buf |-> r.buf, dreie |-> uart_send_char_arm(r.ret, dreie), ret |-> r.ret]

\* queue_command_line: the loop over the characters of cmd_line, from index i
RECURSIVE QueueChars(_, _, _)
QueueChars(cb, line, i) ==
  IF line[i] # NUL /\ ~circular_buf_full(cb)
    THEN QueueChars(circular_buf_try_put(cb, line[i]).buf, line, i + 1)
    ELSE cb

queue_command_line(cb, line) ==
  LET c1 == QueueChars(cb, line, 0) IN
    IF ~circular_buf_full(c1) THEN circular_buf_try_put(c1, NUL).buf ELSE c1

\* an extraction loop that runs until the command queue is empty
RECURSIVE ExtractLine_whole_queue(_, _)
ExtractLine_whole_queue(cb, acc) ==
  LET r == circular_buf_get(cb) IN
    IF r.rc = 0
      THEN ExtractLine_whole_queue(r.buf, IF r.data = NUL THEN acc ELSE Append(acc, r.data))
      ELSE [buf |-> cb, line |-> acc]

\* execute_next_command, the extraction loop: acc is cmd_line[0..i-1]
RECURSIVE ExtractLine(_, _)
ExtractLine(cb, acc) ==
  IF Len(acc) < MAX_CMD_LENGTH - 1
    THEN LET r == circular_buf_get(cb) IN
           IF r.rc = 0
             THEN IF r.data = NUL THEN [buf |-> r.buf, line |-> acc]
                  ELSE ExtractLine(r.buf, Append(acc, r.data))
             ELSE [buf |-> r.buf, line |-> acc]
    ELSE [buf |-> cb, line |-> acc]

LineInit ==
  /\ current_cmd_line = [i \in 0..(MAX_CMD_LENGTH - 1) |-> NUL]
  /\ current_cmd_index = 0
  /\ cmd_line_buffer = circular_buf_init(CMD_BUFFER_SIZE)
  /\ cpc = "collect"
  /\ aos_p = <<>>
  /\ cmd_line = <<>>
  /\ fed = 0
  /\ typed = <<>>
  /\ typed_ok = TRUE
  /\ raw = <<>>
  /\ pending = <<>>
  /\ was_full = FALSE

\* ISR(USART3_RXC_vect) with a byte of a terminal that sends at most cap bytes
ConRx(b, cap) ==
  /\ fed < cap
  /\ circular_buf_size(uart_rx_buffer) < MaxPending
  /\ uart_rx_buffer' = uart_rx_isr_handler(uart_rx_buffer, b)
  /\ fed' = fed + 1
  /\ UNCHANGED <<current_cmd_line, current_cmd_index, cmd_line_buffer, cpc, aos_p,
                 cmd_line, typed, typed_ok, raw, pending, was_full, rxhist, txvars, qvars,
                 strvars, racevars, appvars>>

\* the terminal types any of the console's bytes
ConRxISR(b) == ConRx(b, MaxFeed)

\* the bytes of a terminal that types lines without editing them
LineBytes == {CR, 65, 66}

\* the terminal types letters and CR
CmdRxISR(b) == ConRx(b, MaxLineFeed)

\* collect_uart_input: while (uart_receive_char(&ch)) { one iteration }; when
\* the receive fails the loop ends and execute_next_command is next
ConCollect ==
  /\ cpc = "collect"
  /\ LET r == uart_receive_char(uart_rx_buffer)
         ch == r.data
         e == uart_send_char(uart_tx_buffer, DREIE, ch)
     IN
       /\ uart_rx_buffer' = r.buf
       /\ IF ~r.ret
            THEN /\ cpc' = "execute"
                 /\ UNCHANGED <<current_cmd_line, current_cmd_index, cmd_line_buffer,
                                aos_p, typed, typed_ok, raw, uart_tx_buffer, DREIE>>
            ELSE /\ uart_tx_buffer' = e.buf
                 /\ DREIE' = e.dreie
                 /\ raw' = IF ch = LF \/ ch = CR THEN <<>> ELSE Append(raw, ch)
                 /\ IF ch = LF \/ ch = CR
                      THEN /\ typed' = <<>>
                           /\ typed_ok' = TRUE
                           /\ IF current_cmd_index > 0
                                THEN LET line == [current_cmd_line EXCEPT ![current_cmd_index] = NUL] IN
                                       /\ current_cmd_line' = line
                                       /\ cmd_line_buffer' = queue_command_line(cmd_line_buffer, line)
                                       /\ current_cmd_index' = 0
                                       /\ aos_p' = StrCrLf
                                       /\ cpc' = "aos_send"
                                ELSE UNCHANGED <<current_cmd_line, current_cmd_index,
                                                 cmd_line_buffer, aos_p, cpc>>
                      ELSE IF ch = BS \/ ch = DEL
                      THEN /\ typed' = <<>>
                           /\ typed_ok' = FALSE
                           /\ IF current_cmd_index > 0
                                THEN /\ current_cmd_index' = erase_last(current_cmd_index)
                                     /\ aos_p' = StrErase
                                     /\ cpc' = "aos_send"
                                     /\ UNCHANGED <<current_cmd_line, cmd_line_buffer>>
                                ELSE UNCHANGED <<current_cmd_line, current_cmd_index,
                                                 cmd_line_buffer, aos_p, cpc>>
                      ELSE IF IsPrintable(ch)
                      THEN /\ IF line_has_room(current_cmd_index)
                                THEN /\ current_cmd_line' = [current_cmd_line EXCEPT ![current_cmd_index] = ch]
                                     /\ current_cmd_index' = U8(current_cmd_index + 1)
                                     /\ typed' = IF typed_ok THEN Append(typed, ch) ELSE typed
                                     /\ typed_ok' = typed_ok
                                ELSE /\ typed' = <<>>
                                     /\ typed_ok' = FALSE
                                     /\ UNCHANGED <<current_cmd_line, current_cmd_index>>
                           /\ UNCHANGED <<cmd_line_buffer, aos_p, cpc>>
                      ELSE /\ typed' = <<>>
                           /\ typed_ok' = FALSE
                           /\ UNCHANGED <<current_cmd_line, current_cmd_index,
                                          cmd_line_buffer, aos_p, cpc>>
  /\ pending' = IF ~circular_buf_empty(uart_rx_buffer) /\ current_cmd_index > 0
                       /\ Head(CbContents(uart_rx_buffer)) \in {CR, LF}
                  THEN Append(pending, [i \in 1..current_cmd_index |-> current_cmd_line[i - 1]])
                  ELSE pending
  /\ was_full' = (was_full \/ circular_buf_full(cmd_line_buffer'))
  /\ UNCHANGED <<cmd_line, fed, rxhist, txhist, qvars, strvars, racevars, appvars>>

\* aos_send: while (*p) { if (!uart_send_char(*p)) continue; p++; }
ConAosSend ==
  /\ cpc = "aos_send"
  /\ IF aos_p = <<>>
       THEN /\ cpc' = "collect"
            /\ UNCHANGED <<aos_p, uart_tx_buffer, DREIE>>
       ELSE LET e == uart_send_char(uart_tx_buffer, DREIE, Head(aos_p)) IN
              /\ uart_tx_buffer' = e.buf
              /\ DREIE' = e.dreie
              /\ aos_p' = IF e.ret THEN Tail(aos_p) ELSE aos_p
              /\ cpc' = cpc
  /\ UNCHANGED <<current_cmd_line, current_cmd_index, cmd_line_buffer, cmd_line, fed,
                 typed, typed_ok, raw, pending, was_full, rxvars, txhist, qvars, strvars,
                 racevars, appvars>>

(***************************************************************************)
(* aos_send (and the loop of aos_printf, which is the same) at the          *)
(* granularity of the statements of uart_send_char, with the DRE ISR        *)
(* running between any two of them while it is armed.  The string of a      *)
(* call has str_n characters Str(1), Str(2), ...; sent is the history of    *)
(* the bytes the call has put into the outbound queue.                      *)
(***************************************************************************)
\* the main loop calls aos_send(str) with strlen(str) = n
AosSendCall(n) ==
  /\ cpc = "collect"
  /\ pc = "idle"
  /\ cpc' = "aos_send"
  /\ aos_p' = [k \in 1..n |-> Str(k)]
  /\ str_n' = n
  /\ sent' = <<>>
  /\ UNCHANGED <<current_cmd_line, current_cmd_index, cmd_line_buffer, cmd_line, fed,
                 typed, typed_ok, raw, pending, was_full>>
  /\ UNCHANGED <<uart_tx_buffer, DREIE, pc, success, wire, txev>>
  /\ UNCHANGED <<spc, str_i, count, queued, ret>>
  /\ UNCHANGED <<qvars, rxvars, racevars, appvars>>

\* while (*p) { ... uart_send_char(*p): bool success = buffer_put(uart_tx_buffer, c);
\* at the end of the string the call returns
AosSendPut ==
  /\ cpc = "aos_send"
  /\ pc = "idle"
  /\ IF aos_p = <<>>
       THEN /\ cpc' = "collect"
            /\ UNCHANGED <<uart_tx_buffer, success, sent, pc>>
       ELSE LET r == uart_buffer_put(uart_tx_buffer, Head(aos_p)) IN
              /\ uart_tx_buffer' = r.buf
              /\ success' = r.ret
              /\ sent' = IF r.ret THEN Append(sent, Head(aos_p)) ELSE sent
              /\ pc' = "arm"
              /\ cpc' = cpc
  /\ UNCHANGED <<current_cmd_line, current_cmd_index, cmd_line_buffer, cmd_line, fed,
                 typed, typed_ok, raw, pending, was_full, aos_p>>
  /\ UNCHANGED <<DREIE, wire, txev>>
  /\ UNCHANGED <<strvars, qvars, rxvars, racevars, appvars>>

\* if (success && active_usart) CTRLA |= USART_DREIE_bm; return success;
\* and in aos_send: if (!uart_send_char(*p)) continue; p++;
AosSendArm ==
  /\ cpc = "aos_send"
  /\ pc = "arm"
  /\ DREIE' = uart_send_char_arm(success, DREIE)
  /\ aos_p' = IF success THEN Tail(aos_p) ELSE aos_p
  /\ pc' = "idle"
  /\ UNCHANGED <<current_cmd_line, current_cmd_index, cmd_line_buffer, cmd_line, fed,
                 typed, typed_ok, raw, pending, was_full, cpc>>
  /\ UNCHANGED <<uart_tx_buffer, success, sent, wire, txev>>
  /\ UNCHANGED <<strvars, qvars, rxvars, racevars, appvars>>

SendNext ==
  \/ \E n \in 0..(UART_BUFFER_SIZE + 2) : AosSendCall(n)
  \/ AosSendPut
  \/ AosSendArm
  \/ DreISR

(***************************************************************************)
(* execute_next_command after the extraction loop: the line is split by    *)
(* sscanf, the command name is upper-cased and looked up in the command    *)
(* table, and the handler is called.  Two consoles are in the sources:     *)
(* AOS/include/ui.c and rtclab/include/ui.c.  Characters are their ASCII   *)
(* codes; a handler call is recorded with the parameter it received.       *)
(***************************************************************************)
\* commands[] of AOS/include/ui.c, without the help texts
commands_AOS ==
  <<
    [name |-> <<72, 69, 76, 80>>, handler |-> "cmd_help"],
    [name |-> <<83, 89, 83, 73, 78, 70, 79>>, handler |-> "cmd_sysinfo"],
    [name |-> <<82, 69, 83, 69, 84>>, handler |-> "cmd_reset"],
    [name |-> <<82, 69, 71, 83>>, handler |-> "cmd_regs"],
    [name |-> <<82, 69, 65, 68>>, handler |-> "cmd_read"],
    [name |-> <<87, 82, 73, 84, 69>>, handler |-> "cmd_write"],
    [name |-> <<68, 85, 77, 80>>, handler |-> "cmd_dump"],
    [name |-> <<80, 69, 69, 75>>, handler |-> "cmd_peek"],
    [name |-> <<80, 79, 75, 69>>, handler |-> "cmd_poke"],
    [name |-> <<85, 65, 82, 84>>, handler |-> "cmd_uart_test"],
    [name |-> <<71, 80, 73, 79>>, handler |-> "cmd_gpio_test"],
    [name |-> <<84, 73, 77, 69, 82>>, handler |-> "cmd_timer_info"],
    [name |-> <<83, 69, 84>>, handler |-> "cmd_set_time"],
    [name |-> <<65, 76, 65, 82, 77>>, handler |-> "cmd_set_alarm"],
    [name |-> <<83, 72, 79, 87>>, handler |-> "cmd_show_status"],
    [name |-> <<83, 84, 79, 80>>, handler |-> "cmd_stop_alarm"] >>

\* commands[] of rtclab/include/ui.c, without the help texts
commands_rtclab ==
  <<
    [name |-> <<83, 69, 84>>, handler |-> "cmd_set_time"],
    [name |-> <<65, 76, 65, 82, 77>>, handler |-> "cmd_set_alarm"],
    [name |-> <<83, 72, 79, 87>>, handler |-> "cmd_show_status"],
    [name |-> <<83, 84, 79, 80>>, handler |-> "cmd_stop_alarm"],
    [name |-> <<68, 69, 66, 85, 71>>, handler |-> "cmd_debug_info"],
    [name |-> <<72, 69, 76, 80>>, handler |-> "cmd_help"] >>

commands(v) == IF v = "AOS" THEN commands_AOS ELSE commands_rtclab

\* what a handler of AOS/include/ui.c does with params first: nothing
\* ((void)params), a test for NULL (cmd_gpio_test), or a read through the
\* pointer: strlen(params) in cmd_regs and cmd_read (cmd_peek),
\* strtok((char *)params, " ") in cmd_write (cmd_poke) and cmd_dump,
\* sscanf(time_str, ...) under ui_parse_time in cmd_set_time and cmd_set_alarm
params_use(handler) ==
  IF handler \in {"cmd_help", "cmd_sysinfo", "cmd_reset", "cmd_uart_test",
                  "cmd_timer_info", "cmd_show_status", "cmd_stop_alarm"}
    THEN "unused"
  ELSE IF handler = "cmd_gpio_test" THEN "tested"
  ELSE "read"

\* isspace() of the C locale
IsSpace(c) == c \in {9, 10, 11, 12, 13, 32}

RECURSIVE SkipSpace(_)
SkipSpace(s) == IF s # <<>> /\ IsSpace(Head(s)) THEN SkipSpace(Tail(s)) ELSE s

\* the conversion %<width>s after the leading white space has been skipped
RECURSIVE ScanWord(_, _, _)
ScanWord(s, width, acc) ==
  IF s # <<>> /\ ~IsSpace(Head(s)) /\ Len(acc) < width
    THEN ScanWord(Tail(s), width, Append(acc, Head(s)))
    ELSE [tok |-> acc, rest |-> s]

\* the conversion %<width>[^\r\n]
RECURSIVE ScanToEol(_, _, _)
ScanToEol(s, width, acc) ==
  IF s # <<>> /\ Head(s) \notin {13, 10} /\ Len(acc) < width
    THEN ScanToEol(Tail(s), width, Append(acc, Head(s)))
    ELSE [tok |-> acc, rest |-> s]

\* sscanf(cmd_line, "%15s %63[^\r\n]", cmd_name, params) of AOS and
\* sscanf(cmd_line, "%15s %19s", cmd_name, params) of rtclab
sscanf_cmd_line(v, line) ==
  LET s1 == SkipSpace(line) IN
    IF s1 = <<>>
      THEN [num_parsed |-> -1, cmd_name |-> <<>>, params |-> <<>>]
      ELSE LET w == ScanWord(s1, 15, <<>>)
               s2 == SkipSpace(w.rest)
               p == IF v = "AOS" THEN ScanToEol(s2, 63, <<>>) ELSE ScanWord(s2, 19, <<>>)
           IN IF p.tok = <<>>
                THEN [num_parsed |-> 1, cmd_name |-> w.tok, params |-> <<>>]
                ELSE [num_parsed |-> 2, cmd_name |-> w.tok, params |-> p.tok]

\* while (*p == ' ' || *p == '\t') p++;
RECURSIVE TrimLeft(_)
TrimLeft(s) == IF s # <<>> /\ Head(s) \in {32, 9} THEN TrimLeft(Tail(s)) ELSE s

\* while (len > 0 && (params[len - 1] == ' ' || params[len - 1] == '\t')) ...
RECURSIVE TrimRight(_)
TrimRight(s) ==
  IF s # <<>> /\ s[Len(s)] \in {32, 9} THEN TrimRight(SubSeq(s, 1, Len(s) - 1)) ELSE s

\* a command name left as typed
to_upper_keeps_case(c) == c

\* cmd_name[j] - 'a' + 'A' for the letters a..z
to_upper(c) == IF c >= 97 /\ c <= 122 THEN c - 97 + 65 ELSE c

\* the table entries whose name equals cmd_name (strcmp == 0), in table order
Matches(v, cmd_name) ==
  SelectSeq(commands(v), LAMBDA e : e.name = cmd_name)

\* execute_next_command from the sscanf on: the handler calls made and the
\* messages sent, in order
execute_dispatch(v, line) ==
  LET p == sscanf_cmd_line(v, line)
      cmd_name == [i \in 1..Len(p.cmd_name) |-> to_upper(p.cmd_name[i])]
      params == IF v = "AOS" /\ p.num_parsed >= 2
                  THEN TrimRight(TrimLeft(p.params)) ELSE p.params
      arg == IF p.num_parsed > 1 THEN [null |-> FALSE, text |-> params]
             ELSE [null |-> (v = "AOS"), text |-> <<>>]
      hit == Matches(v, cmd_name)
  IN IF p.num_parsed < 1
       THEN [num_parsed |-> p.num_parsed, calls |-> <<>>, out |-> <<>>]
     ELSE IF hit # <<>>
       THEN [num_parsed |-> p.num_parsed,
             calls |-> <<[handler |-> hit[1].handler, arg |-> arg]>>,
             out |-> IF v = "AOS" THEN <<"prompt">> ELSE <<>>]
     ELSE [num_parsed |-> p.num_parsed, calls |-> <<>>,
           out |-> <<"unknown", "hint">> \o (IF v = "AOS" THEN <<"prompt">> ELSE <<>>)]

\* every upper/lower-case spelling of a command name
RECURSIVE Spell(_)
Spell(nm) ==
  IF nm = <<>> THEN {<<>>}
  ELSE {<<c>> \o r : c \in {Head(nm), Head(nm) + 32}, r \in Spell(Tail(nm))}

\* first tokens that are no command: "bogus", "HELPX", "HEL", "se", "?"
BogusNames == {<<98, 111, 103, 117, 115>>, <<72, 69, 76, 80, 88>>, <<72, 69, 76>>, <<115, 101>>, <<63>>}

\* what follows the command name: nothing, "12:30:00", "a b", "Ab  c"
Bodies == {<<>>, <<49, 50, 58, 51, 48, 58, 48, 48>>, <<97, 32, 98>>, <<65, 98, 32, 32, 99>>}

\* runs of blanks before the name, between name and parameters, and after
Blanks == {<<>>, <<32>>, <<32, 32>>}

DispInit ==
  /\ xpc = "idle"
  /\ variant = "AOS"
  /\ l_reg = "none"
  /\ l_name = <<>>
  /\ l_body = <<>>
  /\ num_parsed = 0
  /\ calls = <<>>
  /\ out = <<>>

\* the lines offered to the dispatchers: blanks, a first token (a spelling
\* of a registered command with that command's handler as reg, or a token
\* that is no command, or none), blanks, a parameter text, blanks
DispatchInputs ==
  LET Shapes == {sh \in [pre : Blanks, gap : Blanks, body : Bodies, post : Blanks] :
                   sh.body # <<>> => sh.gap # <<>>}
      Named(v) == UNION {{[reg |-> commands(v)[i].handler, nm |-> nm] :
                            nm \in Spell(commands(v)[i].name)} : i \in 1..Len(commands(v))}
      Other == {[reg |-> "none", nm |-> nm] : nm \in BogusNames \cup {<<>>}}
  IN {[v |-> v, reg |-> t.reg, nm |-> t.nm, pre |-> sh.pre, gap |-> sh.gap,
       body |-> sh.body, post |-> sh.post] :
        v \in {"AOS", "rtclab"}, t \in Named("AOS") \cup Named("rtclab") \cup Other, sh \in Shapes}

\* the extraction loop has left the line of input in in cmd_line
ExecExtracted(in) ==
  /\ xpc = "idle"
  /\ in.reg # "none" => \E i \in 1..Len(commands(in.v)) : commands(in.v)[i].handler = in.reg
  /\ in.nm = <<>> => in.body = <<>>
  /\ in.pre \o in.nm \o in.gap \o in.body \o in.post # <<>>
  /\ cmd_line' = in.pre \o in.nm \o in.gap \o in.body \o in.post
  /\ variant' = in.v
  /\ l_reg' = in.reg
  /\ l_name' = in.nm
  /\ l_body' = in.body
  /\ xpc' = "dispatch"
  /\ UNCHANGED <<num_parsed, calls, out>>
  /\ UNCHANGED <<linerest, qvars, txvars, rxvars, strvars, racevars, menuvars, timevars>>

ExecDispatch ==
  /\ xpc = "dispatch"
  /\ LET r == execute_dispatch(variant, cmd_line) IN
       /\ num_parsed' = r.num_parsed
       /\ calls' = r.calls
       /\ out' = r.out
  /\ xpc' = "done"
  /\ UNCHANGED <<variant, l_reg, l_name, l_body>>
  /\ UNCHANGED <<linevars, qvars, txvars, rxvars, strvars, racevars, menuvars, timevars>>

\* execute_next_command has returned; the histories start afresh for the
\* next invocation
ExecReturn ==
  /\ xpc = "done"
  /\ xpc' = "idle"
  /\ variant' = "AOS"
  /\ l_reg' = "none"
  /\ l_name' = <<>>
  /\ l_body' = <<>>
  /\ num_parsed' = 0
  /\ calls' = <<>>
  /\ out' = <<>>
  /\ cmd_line' = <<>>
  /\ UNCHANGED <<linerest, qvars, txvars, rxvars, strvars, racevars, menuvars, timevars>>

\* one of the lines is at the front of the command queue when
\* execute_next_command is called
ExecLine ==
  /\ xpc = "idle"
  /\ \E in \in DispatchInputs : ExecExtracted(in)

DispNext ==
  \/ ExecLine
  \/ ExecDispatch
  \/ ExecReturn

(***************************************************************************)
(* The console with its dispatcher.                                        *)
(***************************************************************************)
\* execute_next_command of AOS: take one line from the command queue; an
\* empty queue or an empty line returns at once, otherwise the line is
\* dispatched.  Of the output only the prompt, which comes last, is sent
\* through aos_send here; the other messages are recorded in out.
ConExecute ==
  /\ cpc = "execute"
  /\ IF circular_buf_empty(cmd_line_buffer)
       THEN /\ cpc' = "collect"
            /\ UNCHANGED <<cmd_line_buffer, cmd_line, aos_p, num_parsed, calls, out, pending>>
       ELSE LET x == ExtractLine(cmd_line_buffer, <<>>)
                r == execute_dispatch("AOS", x.line)
            IN
              /\ cmd_line_buffer' = x.buf
              /\ cmd_line' = x.line
              /\ pending' = IF x.line # <<>> /\ pending # <<>>
                                   /\ (r.calls # <<>> \/ \E k \in 1..Len(r.out) : r.out[k] = "unknown")
                              THEN Tail(pending) ELSE pending
              /\ IF x.line = <<>>
                   THEN /\ cpc' = "collect"
                        /\ aos_p' = aos_p
                        /\ num_parsed' = 0
                        /\ calls' = <<>>
                        /\ out' = <<>>
                   ELSE /\ num_parsed' = r.num_parsed
                        /\ calls' = r.calls
                        /\ out' = r.out
                        /\ IF r.out # <<>> /\ r.out[Len(r.out)] = "prompt"
                             THEN cpc' = "aos_send" /\ aos_p' = StrPrompt
                             ELSE cpc' = "collect" /\ aos_p' = aos_p
  /\ UNCHANGED <<current_cmd_line, current_cmd_index, fed, typed, typed_ok, raw, was_full,
                 rxvars, txvars, qvars, strvars, racevars>>
  /\ UNCHANGED <<xpc, variant, l_reg, l_name, l_body, menuvars, timevars>>

LineNext ==
  \/ \E b \in ConsoleBytes : ConRxISR(b)
  \/ ConCollect
  \/ ConAosSend
  \/ ConExecute
  \/ DreISR

\* a terminal that sends bytes without meaning among a letter, CR and BS:
\* NUL, BEL, 31 and 128 next to the printable range, ESC and 255
CtlBytes == {CR, BS, 65, NUL, BEL, 27, 31, 128, 255}

CtlRxISR(b) == ConRx(b, MaxCtlFeed)

CtlNext ==
  \/ \E b \in CtlBytes : CtlRxISR(b)
  \/ ConCollect
  \/ ConAosSend
  \/ ConExecute
  \/ DreISR

\* a terminal that sends lines of blanks and letters
BlankBytes == {CR, 32, 65}

BlankRxISR(b) == ConRx(b, MaxLineFeed)

BlankNext ==
  \/ \E b \in BlankBytes : BlankRxISR(b)
  \/ ConCollect
  \/ ConAosSend
  \/ ConExecute
  \/ DreISR

CmdNext ==
  \/ \E b \in LineBytes : CmdRxISR(b)
  \/ ConCollect
  \/ ConAosSend
  \/ ConExecute
  \/ DreISR

(***************************************************************************)
(* uart2/main.c: prompt_and_handle_menu, called once per main-loop         *)
(* iteration.  One call is one step; the RXC ISR delivers the terminal's   *)
(* bytes in between.  What printf prints is recorded by message, not by    *)
(* character.                                                              *)
(***************************************************************************)
\* the decimal digits of v
RECURSIVE DigitsOf(_)
DigitsOf(v) == IF v < 10 THEN <<48 + v>> ELSE DigitsOf(v \div 10) \o <<48 + (v % 10)>>

\* the values the terminal enters: around both ranges and around 2^8
MenuValues == (0..MaxNear) \cup {255 + k : k \in 0..(MaxNear + 1)}

\* a dialog as the terminal types it: F or P, CR, the digits of v, CR
MenuDialog(c, v) == <<c, CR>> \o DigitsOf(v) \o <<CR>>

\* uint8_t and the 16-bit int and unsigned int of the AVR
U16(x) == x % 65536
Int16(x) == ((x + 32768) % 65536) - 32768

\* clamp_u8 that returns v whatever the limits are
clamp_u8_none(v, lo, hi) == v

clamp_u8(v, lo, hi) == IF v < lo THEN lo ELSE IF v > hi THEN hi ELSE v

\* the C string in buf: the characters before the first NUL
RECURSIVE CString(_, _)
CString(buf, i) ==
  IF i >= INPUT_BUFFER_SIZE \/ buf[i] = NUL THEN <<>>
  ELSE <<buf[i]>> \o CString(buf, i + 1)

\* the digits at the front of s, accumulated in a 16-bit int
RECURSIVE AtoiDigits(_, _)
AtoiDigits(s, acc) ==
  IF s # <<>> /\ Head(s) >= 48 /\ Head(s) <= 57
    THEN AtoiDigits(Tail(s), Int16(acc * 10 + (Head(s) - 48)))
    ELSE acc

\* an atoi that stops after one digit
atoi_first_digit(str) ==
  IF str # <<>> /\ Head(str) >= 48 /\ Head(str) <= 57 THEN Head(str) - 48 ELSE 0

\* atoi: white space, an optional sign, digits; 0 when there is no digit
atoi(str) ==
  LET s == SkipSpace(str) IN
    IF s # <<>> /\ Head(s) = 45 THEN Int16(0 - AtoiDigits(Tail(s), 0))
    ELSE IF s # <<>> /\ Head(s) = 43 THEN AtoiDigits(Tail(s), 0)
    ELSE AtoiDigits(s, 0)

\* memset(input_buffer, 0, sizeof(input_buffer))
ClearedBuffer == [i \in 0..(INPUT_BUFFER_SIZE - 1) |-> NUL]

MenuInit ==
  /\ state = "MENU_IDLE"
  /\ input_buffer = ClearedBuffer
  /\ input_index = 0
  /\ prompt_shown = FALSE
  /\ freq_hz = 2
  /\ led_pos = 0
  /\ script = <<>>
  /\ dialogs = 0
  /\ m_out = <<>>
  /\ dialog = <<>>
  /\ upd = <<>>
  /\ f0 = 2
  /\ p0 = 0
  /\ prompts = 0

\* the terminal starts to type a dialog
MenuType(c, v) ==
  /\ script = <<>>
  /\ dialogs < MaxDialogs
  /\ script' = MenuDialog(c, v)
  /\ dialogs' = dialogs + 1
  /\ UNCHANGED <<state, input_buffer, input_index, prompt_shown, freq_hz, led_pos,
                 m_out, dialog, upd, f0, p0, prompts>>
  /\ UNCHANGED <<rxvars, txvars, qvars, strvars, racevars, linevars, dispvars, timevars>>

\* ISR(USART3_RXC_vect) with the next byte of the terminal
MenuRxISR ==
  /\ script # <<>>
  /\ circular_buf_size(uart_rx_buffer) < MaxPending
  /\ uart_rx_buffer' = uart_rx_isr_handler(uart_rx_buffer, Head(script))
  /\ script' = Tail(script)
  /\ UNCHANGED <<state, input_buffer, input_index, prompt_shown, freq_hz, led_pos,
                 dialogs, m_out, dialog, upd, f0, p0, prompts>>
  /\ UNCHANGED <<rxhist, txvars, qvars, strvars, racevars, linevars, dispvars, timevars>>

\* the terminal types one of the key sequences
MenuTypeKeys(keys) ==
  /\ script = <<>>
  /\ dialogs = 0
  /\ script' = keys
  /\ dialogs' = 1
  /\ UNCHANGED <<state, input_buffer, input_index, prompt_shown, freq_hz, led_pos,
                 m_out, dialog, upd, f0, p0, prompts>>
  /\ UNCHANGED <<rxvars, txvars, qvars, strvars, racevars, linevars, dispvars, timevars>>

\* a routing that knows the capital letters only
menu_choice_capitals_only(choice) ==
  IF choice = 70 THEN "MENU_WAIT_FREQ"
  ELSE IF choice = 80 THEN "MENU_WAIT_POS"
  ELSE "MENU_IDLE"

\* MENU_WAIT_CHOICE: the state char choice = input_buffer[0] leads to
menu_choice(choice) ==
  IF choice \in {70, 102} THEN "MENU_WAIT_FREQ"
  ELSE IF choice \in {80, 112} THEN "MENU_WAIT_POS"
  ELSE "MENU_IDLE"

\* a first character stored without the memset
menu_idle_store_no_memset(ch) == [input_buffer EXCEPT ![0] = ch]

\* MENU_IDLE: input_index = 0; memset(input_buffer, 0, ...);
\* input_buffer[input_index++] = ch;
menu_idle_store(ch) == [ClearedBuffer EXCEPT ![0] = ch]

\* a test that never finds the scratch buffer empty
empty_input_never(index) == FALSE

\* if (input_index == 0) break;
empty_input(index) == index = 0

\* CR/LF in a field state with text in the buffer: the value atoi reads is
\* cut to a byte, clamped to lo..hi and applied
FieldEntry(lo, hi) ==
  LET newv == U16(atoi(CString(input_buffer, 0)))
      nv == clamp_u8(newv % 256, lo, hi)
  IN [value |-> nv, notice |-> IF nv # newv THEN <<"clamped">> ELSE <<>>]

\* else if (input_index < 63) input_buffer[input_index++] = ch;
StoreChar(ch) ==
  IF input_index < INPUT_BUFFER_SIZE - 1
    THEN /\ input_buffer' = [input_buffer EXCEPT ![input_index] = ch]
         /\ input_index' = input_index + 1
    ELSE UNCHANGED <<input_buffer, input_index>>

\* a prompt that is printed on every call in MENU_IDLE
show_prompt_whenever_idle(st, shown) == st = "MENU_IDLE"

\* if (state == MENU_IDLE && !prompt_shown)
show_prompt(st, shown) == st = "MENU_IDLE" /\ ~shown

\* one call of prompt_and_handle_menu(&freq_hz, &led_pos)
MenuCall ==
  LET show == show_prompt(state, prompt_shown)
      pre == IF show THEN <<"menu_prompt">> ELSE <<>>
      r == uart_receive_char(uart_rx_buffer)
      ch == r.data
      eol == ch = 10 \/ ch = 13
  IN
    /\ uart_rx_buffer' = r.buf
    /\ IF ~r.ret
         THEN /\ prompt_shown' = (prompt_shown \/ show)
              /\ m_out' = pre
              /\ UNCHANGED <<state, input_buffer, input_index, freq_hz, led_pos,
                             dialog, upd, f0, p0>>
       ELSE IF state = "MENU_IDLE"
         THEN /\ state' = "MENU_WAIT_CHOICE"
              /\ input_buffer' = menu_idle_store(ch)
              /\ input_index' = 1
              /\ prompt_shown' = FALSE
              /\ m_out' = pre \o <<"echo">>
              /\ dialog' = <<ch>>
              /\ upd' = <<>>
              /\ f0' = freq_hz
              /\ p0' = led_pos
              /\ UNCHANGED <<freq_hz, led_pos>>
       ELSE /\ dialog' = Append(dialog, ch)
            /\ UNCHANGED <<f0, p0>>
            /\ IF state = "MENU_WAIT_CHOICE"
                 THEN /\ UNCHANGED <<freq_hz, led_pos, upd>>
                      /\ IF eol /\ empty_input(input_index)
                           THEN /\ m_out' = <<"echo">>
                                /\ UNCHANGED <<state, input_buffer, input_index, prompt_shown>>
                         ELSE IF eol /\ menu_choice(input_buffer[0]) = "MENU_WAIT_FREQ"
                           THEN /\ m_out' = <<"echo", "freq_prompt">>
                                /\ state' = "MENU_WAIT_FREQ"
                                /\ input_index' = 0
                                /\ input_buffer' = ClearedBuffer
                                /\ UNCHANGED prompt_shown
                         ELSE IF eol /\ menu_choice(input_buffer[0]) = "MENU_WAIT_POS"
                           THEN /\ m_out' = <<"echo", "pos_prompt">>
                                /\ state' = "MENU_WAIT_POS"
                                /\ input_index' = 0
                                /\ input_buffer' = ClearedBuffer
                                /\ UNCHANGED prompt_shown
                         ELSE IF eol
                           THEN /\ m_out' = <<"echo", "unrecognized">>
                                /\ state' = "MENU_IDLE"
                                /\ prompt_shown' = FALSE
                                /\ UNCHANGED <<input_buffer, input_index>>
                         ELSE /\ m_out' = <<"echo">>
                              /\ StoreChar(ch)
                              /\ UNCHANGED <<state, prompt_shown>>
               ELSE IF state = "MENU_WAIT_FREQ"
                 THEN /\ UNCHANGED led_pos
                      /\ IF eol /\ empty_input(input_index)
                           THEN /\ m_out' = <<"echo">>
                                /\ UNCHANGED <<state, input_buffer, input_index,
                                               prompt_shown, freq_hz, upd>>
                         ELSE IF eol
                           THEN LET e == FieldEntry(1, 10) IN
                                  /\ freq_hz' = e.value
                                  /\ upd' = Append(upd, [field |-> "freq_hz", value |-> e.value])
                                  /\ m_out' = <<"echo">> \o e.notice \o <<"ok">>
                                  /\ state' = "MENU_IDLE"
                                  /\ prompt_shown' = FALSE
                                  /\ UNCHANGED <<input_buffer, input_index>>
                         ELSE /\ m_out' = <<"echo">>
                              /\ StoreChar(ch)
                              /\ UNCHANGED <<state, prompt_shown, freq_hz, upd>>
               ELSE /\ UNCHANGED freq_hz
                    /\ IF eol /\ empty_input(input_index)
                         THEN /\ m_out' = <<"echo">>
                              /\ UNCHANGED <<state, input_buffer, input_index,
                                             prompt_shown, led_pos, upd>>
                       ELSE IF eol
                         THEN LET e == FieldEntry(0, 7) IN
                                /\ led_pos' = e.value
                                /\ upd' = Append(upd, [field |-> "led_pos", value |-> e.value])
                                /\ m_out' = <<"echo">> \o e.notice \o <<"ok">>
                                /\ state' = "MENU_IDLE"
                                /\ prompt_shown' = FALSE
                                /\ UNCHANGED <<input_buffer, input_index>>
                       ELSE /\ m_out' = <<"echo">>
                            /\ StoreChar(ch)
                            /\ UNCHANGED <<state, prompt_shown, led_pos, upd>>
    /\ prompts' = IF state # "MENU_IDLE" /\ state' = "MENU_IDLE" THEN 0
                  ELSE IF show THEN prompts + 1
                  ELSE prompts
    /\ UNCHANGED <<script, dialogs, rxhist, txvars, qvars, strvars, racevars, linevars, dispvars, timevars>>

MenuNext ==
  \/ \E c \in {70, 80}, v \in MenuValues : MenuType(c, v)
  \/ MenuRxISR
  \/ MenuCall

\* the keys of a terminal that types freely: CR, LF, F, f, P, p, x, 1, NUL
MenuBytes == {CR, LF, 70, 102, 80, 112, 120, 49, NUL}

\* every sequence of 1..MaxKeys of them
KeyScripts == UNION {[1..n -> MenuBytes] : n \in 1..MaxKeys}

MenuKeys ==
  /\ script = <<>>
  /\ dialogs = 0
  /\ \E keys \in KeyScripts : MenuTypeKeys(keys)

KeysNext ==
  \/ MenuKeys
  \/ MenuRxISR
  \/ MenuCall

\* ISR(USART3_RXC_vect) at line speed: the main loop calls the menu once
\* per 10 ms tick, so several bytes can arrive between two calls; a byte
\* that finds the inbound queue full is dropped
BurstRxISR ==
  /\ script # <<>>
  /\ uart_rx_buffer' = uart_rx_isr_handler(uart_rx_buffer, Head(script))
  /\ script' = Tail(script)
  /\ UNCHANGED <<state, input_buffer, input_index, prompt_shown, freq_hz, led_pos,
                 dialogs, m_out, dialog, upd, f0, p0, prompts>>
  /\ UNCHANGED <<rxhist, txvars, qvars, strvars, racevars, linevars, dispvars, timevars>>

\* the terminal sends up to MaxKeys of the keys CR, F and 1
BurstKeys ==
  /\ script = <<>>
  /\ dialogs = 0
  /\ \E n \in 1..MaxKeys : \E keys \in [1..n -> {CR, 70, 49}] : MenuTypeKeys(keys)

BurstNext ==
  \/ BurstKeys
  \/ BurstRxISR
  \/ MenuCall

(***************************************************************************)
(* AOS/include/ui.c and ext_clock/main.c: the clock.  The SET and ALARM    *)
(* handlers run one access to the shared variables per step; the RTC       *)
(* overflow ISR runs to completion between any two steps while the global  *)
(* interrupt enable bit is set.  A line reaches its handler through        *)
(* execute_dispatch of the AOS console.                                    *)
(***************************************************************************)

\* rtc_time_t
rtc_time_t(h, m, s) == [hours |-> h, minutes |-> m, seconds |-> s]

\* one %d of sscanf as avr-libc converts it: white space, an optional sign,
\* at least one digit; the value is stored in a 16-bit int
RECURSIVE ScanDigits(_, _, _)
ScanDigits(s, acc, n) ==
  IF s # <<>> /\ Head(s) >= 48 /\ Head(s) <= 57
    THEN ScanDigits(Tail(s), Int16(acc * 10 + (Head(s) - 48)), n + 1)
    ELSE [ok |-> n > 0, val |-> acc, rest |-> s]

scan_d(str) ==
  LET s == SkipSpace(str) IN
    IF s # <<>> /\ Head(s) = 45
      THEN LET r == ScanDigits(Tail(s), 0, 0) IN [r EXCEPT !.val = Int16(0 - r.val)]
    ELSE IF s # <<>> /\ Head(s) = 43 THEN ScanDigits(Tail(s), 0, 0)
    ELSE ScanDigits(s, 0, 0)

\* sscanf(time_str, "%d:%d:%d", &h, &m, &s): the number of conversions and
\* the values stored
sscanf_time(time_str) ==
  LET a == scan_d(time_str) IN
    IF ~a.ok THEN [n |-> 0, h |-> 0, m |-> 0, s |-> 0]
    ELSE IF a.rest = <<>> \/ Head(a.rest) # 58 THEN [n |-> 1, h |-> a.val, m |-> 0, s |-> 0]
    ELSE LET b == scan_d(Tail(a.rest)) IN
      IF ~b.ok THEN [n |-> 1, h |-> a.val, m |-> 0, s |-> 0]
      ELSE IF b.rest = <<>> \/ Head(b.rest) # 58 THEN [n |-> 2, h |-> a.val, m |-> b.val, s |-> 0]
      ELSE LET c == scan_d(Tail(b.rest)) IN
        IF ~c.ok THEN [n |-> 2, h |-> a.val, m |-> b.val, s |-> 0]
        ELSE [n |-> 3, h |-> a.val, m |-> b.val, s |-> c.val]

\* ui_parse_time on a string
ui_parse_time(time_str) ==
  LET r == sscanf_time(time_str) IN
    IF r.n = 3 /\ r.h >= 0 /\ r.h < 24 /\ r.m >= 0 /\ r.m < 60 /\ r.s >= 0 /\ r.s < 60
      THEN [ok |-> TRUE, time |-> rtc_time_t(r.h, r.m, r.s)]
      ELSE [ok |-> FALSE, time |-> rtc_time_t(0, 0, 0)]

\* what sscanf can find at address 0 when params is NULL
NullTimes == {rtc_time_t(0, 0, 0), rtc_time_t(23, 59, 59)}

\* the results ui_parse_time can give for the handler's argument: reading
\* through a NULL params is undefined, any result is possible
ParseResults(arg) ==
  IF arg.null
    THEN {[ok |-> FALSE, time |-> rtc_time_t(0, 0, 0)]} \cup
         {[ok |-> TRUE, time |-> t] : t \in NullTimes}
    ELSE {ui_parse_time(arg.text)}

\* a cli that leaves interrupts enabled
cli_leaves_enabled(sreg_i) == sreg_i

\* cli() and sei() on the global interrupt enable bit
cli(sreg_i) == FALSE
sei(sreg_i) == TRUE

\* ISR(RTC_CNT_vect): the new current_time
rtc_tick(t) ==
  LET s1 == U8(t.seconds + 1) IN
    IF s1 >= 60
      THEN LET m1 == U8(t.minutes + 1) IN
        IF m1 >= 60
          THEN LET h1 == U8(t.hours + 1) IN
            rtc_time_t(IF h1 >= 24 THEN 0 ELSE h1, 0, 0)
          ELSE rtc_time_t(t.hours, m1, 0)
      ELSE rtc_time_t(t.hours, t.minutes, s1)

\* command names: "SET", "ALARM", "STOP", "SHOW", and "SE", which is none
TimeNames == {<<83, 69, 84>>, <<65, 76, 65, 82, 77>>, <<83, 84, 79, 80>>,
              <<83, 72, 79, 87>>, <<83, 69>>}

\* parameter texts: none, "12:30:00", "23:59:59", "00:00:00", "24:00:00",
\* "12:60:00", "12:30:60", "12:30", "abc", "12-30-00", "-1:00:00",
\* "65536:00:00", "12:30:00x"
TimeTexts == {<<>>,
              <<49, 50, 58, 51, 48, 58, 48, 48>>,
              <<50, 51, 58, 53, 57, 58, 53, 57>>,
              <<48, 48, 58, 48, 48, 58, 48, 48>>,
              <<50, 52, 58, 48, 48, 58, 48, 48>>,
              <<49, 50, 58, 54, 48, 58, 48, 48>>,
              <<49, 50, 58, 51, 48, 58, 54, 48>>,
              <<49, 50, 58, 51, 48>>,
              <<97, 98, 99>>,
              <<49, 50, 45, 51, 48, 45, 48, 48>>,
              <<45, 49, 58, 48, 48, 58, 48, 48>>,
              <<54, 53, 53, 51, 54, 58, 48, 48, 58, 48, 48>>,
              <<49, 50, 58, 51, 48, 58, 48, 48, 120>>}

\* the lines offered to the console: a name, then a blank and a text
TimeLines ==
  {nm \o (IF tx = <<>> THEN <<>> ELSE <<32>> \o tx) : nm \in TimeNames, tx \in TimeTexts}

NoArg == [null |-> FALSE, text |-> <<>>]

TimeInit ==
  /\ current_time = rtc_time_t(0, 0, 0)
  /\ alarm_time = rtc_time_t(0, 0, 0)
  /\ alarm_set = FALSE
  /\ alarm_triggered = FALSE
  /\ SREG_I = TRUE
  /\ rtc_interrupt_count = 0
  /\ tpc = "idle"
  /\ t_handler = "none"
  /\ t_arg = NoArg
  /\ new_time = rtc_time_t(0, 0, 0)
  /\ t_msg = "none"
  /\ t_lines = 0
  /\ t_shown = rtc_time_t(-1, -1, -1)
  /\ held = {rtc_time_t(0, 0, 0)}

timeshared == <<current_time, alarm_time, alarm_set, alarm_triggered>>

\* execute_next_command has extracted line: lookup and handler call
TimeDispatch(line) ==
  /\ tpc = "idle"
  /\ t_lines < MaxTimeLines
  /\ t_lines' = t_lines + 1
  /\ LET r == execute_dispatch("AOS", line) IN
       IF r.calls = <<>>
         THEN /\ t_msg' = "unknown"
              /\ UNCHANGED <<tpc, t_handler, t_arg>>
         ELSE /\ t_msg' = "none"
              /\ tpc' = "call"
              /\ t_handler' = r.calls[1].handler
              /\ t_arg' = r.calls[1].arg
  /\ UNCHANGED <<timeshared, SREG_I, rtc_interrupt_count, new_time, t_shown, held>>
  /\ UNCHANGED <<qvars, txvars, rxvars, strvars, racevars, linevars, dispvars, menuvars>>

TimeLine ==
  /\ tpc = "idle"
  /\ \E line \in TimeLines : TimeDispatch(line)

\* the handler up to its first access to the shared variables:
\* cmd_set_time and cmd_set_alarm parse params, and return with the error
\* message when ui_parse_time fails; cmd_stop_alarm
\* runs to its end, and cmd_show_status enters ui_display_time
TimeCall ==
  /\ tpc = "call"
  /\ IF t_handler \in {"cmd_set_time", "cmd_set_alarm"}
       THEN \E r \in ParseResults(t_arg) :
              IF r.ok
                THEN /\ new_time' = r.time
                     /\ tpc' = "cli"
                     /\ UNCHANGED <<t_handler, t_arg, t_msg, alarm_triggered>>
                ELSE /\ t_msg' = "invalid"
                     /\ tpc' = "idle"
                     /\ t_handler' = "none"
                     /\ t_arg' = NoArg
                     /\ UNCHANGED <<new_time, alarm_triggered>>
       ELSE IF t_handler = "cmd_show_status"
         THEN /\ tpc' = "read"
              /\ UNCHANGED <<t_handler, t_arg, t_msg, new_time, alarm_triggered>>
       ELSE /\ alarm_triggered' = IF t_handler = "cmd_stop_alarm" THEN FALSE ELSE alarm_triggered
            /\ t_msg' = IF t_handler = "cmd_stop_alarm" THEN "stopped" ELSE "shown"
            /\ tpc' = "idle"
            /\ t_handler' = "none"
            /\ t_arg' = NoArg
            /\ UNCHANGED new_time
  /\ UNCHANGED <<current_time, alarm_time, alarm_set, SREG_I, rtc_interrupt_count, t_lines,
                 t_shown, held>>
  /\ UNCHANGED <<qvars, txvars, rxvars, strvars, racevars, linevars, dispvars, menuvars>>

\* cli();
TimeCli ==
  /\ tpc = "cli"
  /\ SREG_I' = cli(SREG_I)
  /\ tpc' = "hours"
  /\ UNCHANGED <<timeshared, rtc_interrupt_count, t_handler, t_arg, new_time, t_msg, t_lines,
                 t_shown, held>>
  /\ UNCHANGED <<qvars, txvars, rxvars, strvars, racevars, linevars, dispvars, menuvars>>

\* current_time = new_time; or alarm_time = new_alarm; alarm_set = true;
\* alarm_triggered = false; one store per step
TimeStore ==
  /\ tpc \in {"hours", "minutes", "seconds", "alarm_set", "alarm_triggered"}
  /\ LET old == IF t_handler = "cmd_set_time" THEN current_time ELSE alarm_time
         new == IF tpc = "hours" THEN [old EXCEPT !.hours = new_time.hours]
                ELSE IF tpc = "minutes" THEN [old EXCEPT !.minutes = new_time.minutes]
                ELSE IF tpc = "seconds" THEN [old EXCEPT !.seconds = new_time.seconds]
                ELSE old
     IN /\ current_time' = IF t_handler = "cmd_set_time" THEN new ELSE current_time
        /\ alarm_time' = IF t_handler = "cmd_set_alarm" THEN new ELSE alarm_time
        /\ held' = IF t_handler = "cmd_set_time" THEN held \cup {new} ELSE held
  /\ alarm_set' = IF tpc = "alarm_set" THEN TRUE ELSE alarm_set
  /\ alarm_triggered' = IF tpc = "alarm_triggered" THEN FALSE ELSE alarm_triggered
  /\ tpc' = IF tpc = "hours" THEN "minutes"
            ELSE IF tpc = "minutes" THEN "seconds"
            ELSE IF tpc = "seconds"
              THEN (IF t_handler = "cmd_set_alarm" THEN "alarm_set" ELSE "sei")
            ELSE IF tpc = "alarm_set" THEN "alarm_triggered"
            ELSE "sei"
  /\ UNCHANGED <<SREG_I, rtc_interrupt_count, t_handler, t_arg, new_time, t_msg, t_lines,
                 t_shown>>
  /\ UNCHANGED <<qvars, txvars, rxvars, strvars, racevars, linevars, dispvars, menuvars>>

\* sei();
TimeSei ==
  /\ tpc = "sei"
  /\ SREG_I' = sei(SREG_I)
  /\ tpc' = "report"
  /\ UNCHANGED <<timeshared, rtc_interrupt_count, t_handler, t_arg, new_time, t_msg, t_lines,
                 t_shown, held>>
  /\ UNCHANGED <<qvars, txvars, rxvars, strvars, racevars, linevars, dispvars, menuvars>>

\* aos_printf("Time set to ...") or aos_printf("Alarm set to ..."), return
TimeReport ==
  /\ tpc = "report"
  /\ t_msg' = "set"
  /\ tpc' = "idle"
  /\ t_handler' = "none"
  /\ t_arg' = NoArg
  /\ new_time' = rtc_time_t(0, 0, 0)
  /\ UNCHANGED <<timeshared, SREG_I, rtc_interrupt_count, t_lines, t_shown, held>>
  /\ UNCHANGED <<qvars, txvars, rxvars, strvars, racevars, linevars, dispvars, menuvars>>

\* ui_display_time: one of current_time.hours, current_time.minutes and
\* current_time.seconds is read for aos_printf; the order in which the
\* arguments of a call are evaluated is unspecified
ShowRead ==
  /\ tpc = "read"
  /\ \E f \in {"hours", "minutes", "seconds"} :
       /\ t_shown[f] = -1
       /\ t_shown' = [t_shown EXCEPT ![f] = current_time[f]]
  /\ UNCHANGED <<timeshared, SREG_I, rtc_interrupt_count, tpc, t_handler, t_arg, new_time,
                 t_msg, t_lines, held>>
  /\ UNCHANGED <<qvars, txvars, rxvars, strvars, racevars, linevars, dispvars, menuvars>>

\* ui_display_time: aos_printf("Current Time: ...") with the three values
\* read, the alarm and status lines, return
ShowPrint ==
  /\ tpc = "read"
  /\ \A f \in {"hours", "minutes", "seconds"} : t_shown[f] # -1
  /\ t_shown' = rtc_time_t(-1, -1, -1)
  /\ t_msg' = "shown"
  /\ tpc' = "idle"
  /\ t_handler' = "none"
  /\ t_arg' = NoArg
  /\ UNCHANGED <<timeshared, SREG_I, rtc_interrupt_count, new_time, t_lines, held>>
  /\ UNCHANGED <<qvars, txvars, rxvars, strvars, racevars, linevars, dispvars, menuvars>>

\* ISR(RTC_CNT_vect)
RtcISR ==
  /\ SREG_I
  /\ rtc_interrupt_count < MaxTicks
  /\ rtc_interrupt_count' = rtc_interrupt_count + 1
  /\ current_time' = rtc_tick(current_time)
  /\ alarm_triggered' = IF alarm_set /\ rtc_tick(current_time) = alarm_time
                          THEN TRUE ELSE alarm_triggered
  /\ held' = held \cup {rtc_tick(current_time)}
  /\ UNCHANGED <<alarm_time, alarm_set, SREG_I, tpc, t_handler, t_arg, new_time, t_msg, t_lines,
                 t_shown>>
  /\ UNCHANGED <<qvars, txvars, rxvars, strvars, racevars, linevars, dispvars, menuvars>>

TimeNext ==
  \/ TimeLine
  \/ TimeCall
  \/ TimeCli
  \/ TimeStore
  \/ TimeSei
  \/ TimeReport
  \/ ShowRead
  \/ ShowPrint
  \/ RtcISR

(***************************************************************************)
(* Specifications                                                          *)
(***************************************************************************)
Init ==
  /\ QInit
  /\ TxInit
  /\ RxInit
  /\ StrInit
  /\ RaceInit
  /\ LineInit
  /\ DispInit
  /\ MenuInit
  /\ TimeInit

\* lab5 byte queue used from one context
SpecQ == Init /\ [][QNext]_vars

\* transmit side of uart.c: main loop against the DRE ISR
SpecTx == Init /\ [][TxNext]_vars

\* the DRE ISR keeps running while its interrupt is armed, and the main loop
\* finishes the call it is in
SpecTxFair == SpecTx /\ WF_vars(TxISR) /\ WF_vars(SendCharArm)

\* receive side of uart.c: the RXC ISR against the polling main loop
SpecRx == Init /\ [][RxNext]_vars

\* uart.c, both directions
SpecUart == Init /\ [][UartNext]_vars

\* uart_send_string against the DRE ISR
SpecStr == Init /\ [][StrNext]_vars

\* lab5: main loop at memory-access granularity against both ISRs
SpecRace == Init /\ [][RaceNext]_vars

\* the console of AOS/include/ui.c on the UART driver
SpecLine == Init /\ [][LineNext]_vars

\* aos_send with the main loop running on and the DRE ISR running whenever
\* its interrupt is armed
SpecSend ==
  Init /\ [][SendNext]_vars /\ WF_vars(AosSendPut) /\ WF_vars(AosSendArm) /\ WF_vars(DreISR)

\* the dispatchers of both consoles on every line of the bounded set
SpecDisp == Init /\ [][DispNext]_vars

\* the console fed by a terminal that types letters and CR
SpecCmds == Init /\ [][CmdNext]_vars

\* the console fed with lines of blanks and letters
SpecBlank == Init /\ [][BlankNext]_vars

\* the console fed with control bytes
SpecCtl == Init /\ [][CtlNext]_vars

\* the menu of uart2/main.c polled by the main loop
SpecMenu == Init /\ [][MenuNext]_vars

\* the menu with a terminal that types freely
SpecKeys == Init /\ [][KeysNext]_vars

\* the menu with bytes arriving faster than it is called
SpecBurst == Init /\ [][BurstNext]_vars

\* the clock: SET, ALARM, STOP, SHOW lines and the RTC tick
SpecTime == Init /\ [][TimeNext]_vars

(***************************************************************************)
(* Claims on the byte queue in one context                                 *)
(***************************************************************************)
\* C1: the queue's size always equals the number of successful puts minus
\* the number of successful gets, and lies between 0 and the capacity.
C1_SizeIsPutsMinusGets ==
  /\ tx_buffer.count = Len(putlog) - Len(getlog)
  /\ tx_buffer.count \in 0..BUFFER_SIZE

\* the queue is full after elements were both put and got
C1_Witness ==
  /\ tx_buffer.count = BUFFER_SIZE
  /\ Len(getlog) > 0

\* C2: a put on a full queue leaves head, tail, count and the stored bytes
\* unchanged; a get on an empty queue returns false and leaves them unchanged.
C2_FailedOpsChangeNothing ==
  [][ /\ ((\E d \in Data : QPut(d)) /\ tx_buffer.count = BUFFER_SIZE)
         => (tx_buffer' = tx_buffer /\ last'.ok = FALSE)
      /\ (QGet /\ tx_buffer.count = 0)
         => (tx_buffer' = tx_buffer /\ last'.ok = FALSE) ]_vars

\* a put was refused by a full queue whose indices have wrapped
C2_Witness ==
  /\ last.op = "put" /\ last.ok = FALSE
  /\ tx_buffer.count = BUFFER_SIZE
  /\ Len(getlog) > 0

\* C3: FIFO round trip.  The bytes got so far are the first bytes put, in
\* order, and the bytes still queued are the rest of the bytes put, in order,
\* wherever head and tail stand.
C3_Fifo ==
  /\ Len(getlog) <= Len(putlog)
  /\ getlog = SubSeq(putlog, 1, Len(getlog))
  /\ Contents(tx_buffer) = SubSeq(putlog, Len(getlog) + 1, Len(putlog))

\* bytes of both values were returned after the indices wrapped around
C3_Witness ==
  /\ Len(getlog) > BUFFER_SIZE
  /\ tx_buffer.head < tx_buffer.tail
  /\ \E i, j \in 1..Len(getlog) : getlog[i] # getlog[j]

(***************************************************************************)
(* Claims on the transport                                                 *)
(***************************************************************************)
\* C4: bytes queued with uart_send_char are transmitted by the runs of the
\* DRE ISR each once and in FIFO order: every run that finds a byte writes
\* the oldest queued byte to TXDATAL, the bytes written and the bytes still
\* queued together are the bytes sent, and the run that finds the queue
\* empty (the k+1-th after k bytes) writes nothing and disarms the interrupt.
C4_IsrDrainsFifoThenDisarms ==
  /\ [](wire \o CbContents(uart_tx_buffer) = sent)
  /\ [][ TxISR =>
           IF circular_buf_empty(uart_tx_buffer)
             THEN wire' = wire /\ DREIE' = FALSE
             ELSE /\ wire' = Append(wire, Head(CbContents(uart_tx_buffer)))
                  /\ CbContents(uart_tx_buffer') = Tail(CbContents(uart_tx_buffer))
                  /\ DREIE' = DREIE ]_vars

\* a full queue of bytes was sent from empty, all were transmitted, and the
\* next run of the ISR found nothing and disarmed
C4_Witness ==
  /\ Len(sent) = UART_BUFFER_SIZE
  /\ wire = sent
  /\ txev = [op |-> "isr", ok |-> FALSE]
  /\ DREIE = FALSE
  /\ \E i, j \in 1..Len(wire) : wire[i] # wire[j]

\* C5: uart_send_char returns true exactly when the outbound queue was not
\* full; on true the byte is appended behind the queued bytes and the DRE
\* interrupt is armed when the call returns; on false neither the queue nor
\* the armed state is changed by the call.
C5_SendCharContract ==
  [][ /\ \A c \in Data : SendCharPut(c) =>
           /\ success' = ~circular_buf_full(uart_tx_buffer)
           /\ success' => CbContents(uart_tx_buffer') = Append(CbContents(uart_tx_buffer), c)
           /\ ~success' => uart_tx_buffer' = uart_tx_buffer
           /\ DREIE' = DREIE
      /\ SendCharArm =>
           /\ txev'.ok = success
           /\ success => DREIE'
           /\ ~success => DREIE' = DREIE
           /\ uart_tx_buffer' = uart_tx_buffer ]_vars

\* a call returned true after arming a disarmed interrupt, with bytes queued
C5_Witness ==
  /\ txev = [op |-> "return", ok |-> TRUE]
  /\ DREIE
  /\ uart_tx_buffer.count = UART_BUFFER_SIZE
  /\ Len(wire) > 0

\* C6: uart_send_string returns the number of characters it queued: when it
\* has returned, the value returned equals the length of the prefix of str
\* that entered the outbound queue and lies between 0 and strlen(str), and
\* the queue holds the end of that prefix in order.
C6_SendStringReturnsQueuedCount ==
  spc = "returned" =>
    /\ ret = queued
    /\ ret \in 0..str_n
    /\ LET n == circular_buf_size(uart_tx_buffer) IN
         CbContents(uart_tx_buffer) = [k \in 1..n |-> Str(queued - n + k)]

\* C7: a byte arriving in the receive ISR while the inbound queue is full is
\* dropped and the queue is unchanged; the bytes the queue accepted are
\* delivered to the main loop in their order of arrival.
C7_RxOverflowDropsNewByte ==
  /\ [](rxout \o CbContents(uart_rx_buffer) = rxin)
  /\ [][ \A b \in Data :
           (RxISR(b) /\ circular_buf_full(uart_rx_buffer))
             => (uart_rx_buffer' = uart_rx_buffer /\ rxin' = rxin /\ rxout' = rxout) ]_vars

\* a byte was dropped by a full queue, and the bytes queued before it were
\* all delivered afterwards
C7_Witness ==
  /\ rxdropped
  /\ rxev = [op |-> "receive", ok |-> TRUE]
  /\ Len(rxout) > UART_BUFFER_SIZE
  /\ rxout = rxin
  /\ \E i, j \in 1..Len(rxout) : rxout[i] # rxout[j]

\* C8: no lost wake-up.  Every byte for which uart_send_char returned true
\* is eventually written to TXDATAL, and the bytes written are the bytes
\* sent, each once and in order, provided the DRE ISR keeps running while
\* its interrupt is armed.
C8_NoLostWakeup ==
  /\ \A n \in 1..MaxSent : (Len(sent) >= n /\ pc = "idle") ~> (Len(wire) >= n)
  /\ [](Len(wire) <= Len(sent) /\ wire = SubSeq(sent, 1, Len(wire)))

\* the wake-up case: after the ISR drained the queue and disarmed, a new
\* byte has been queued and the main loop stands before the arming statement
C8_Witness ==
  /\ pc = "arm" /\ success
  /\ ~DREIE
  /\ Len(wire) > 0
  /\ circular_buf_size(uart_tx_buffer) = 1

\* C9: queue consistency across contexts.  Whenever the main loop is between
\* operations, each queue's count equals the number of bytes put and not yet
\* got, head and tail are below the capacity, and the bytes delivered are the
\* first bytes put, each once and in order.
C9_QueuesConsistentAcrossContexts ==
  mpc = "idle" =>
    /\ tx_buffer.count = Len(putlog) - Len(getlog)
    /\ rx_buffer.count = Len(rxputlog) - Len(rxgetlog)
    /\ tx_buffer.head < BUFFER_SIZE /\ tx_buffer.tail < BUFFER_SIZE
    /\ rx_buffer.head < BUFFER_SIZE /\ rx_buffer.tail < BUFFER_SIZE
    /\ Len(getlog) <= Len(putlog) /\ getlog = SubSeq(putlog, 1, Len(getlog))
    /\ Len(rxgetlog) <= Len(rxputlog) /\ rxgetlog = SubSeq(rxputlog, 1, Len(rxgetlog))

(***************************************************************************)
(* Claims on the console                                                   *)
(***************************************************************************)
\* the byte the next iteration of collect_uart_input will consume
NextByte == Head(CbContents(uart_rx_buffer))

\* C10: line framing.  When the line assembler consumes a CR or an LF after
\* a string s of 1..MAX_CMD_LENGTH-1 printable characters typed into an
\* empty line buffer, exactly one command line, s followed by its
\* terminator, is added to the command queue; a CR or LF consumed while the
\* line buffer is empty adds nothing.
C10_LineFraming ==
  [][ (ConCollect /\ ~circular_buf_empty(uart_rx_buffer) /\ NextByte \in {CR, LF}) =>
        /\ (typed_ok /\ Len(typed) >= 1) =>
             CbContents(cmd_line_buffer') = CbContents(cmd_line_buffer) \o typed \o <<NUL>>
        /\ current_cmd_index = 0 => cmd_line_buffer' = cmd_line_buffer ]_vars

\* the line an input leaves: each erase removes the character before it
RECURSIVE ApplyEdits(_, _)
ApplyEdits(in, acc) ==
  IF in = <<>> THEN acc
  ELSE LET b == Head(in) IN
         ApplyEdits(Tail(in),
                    IF b = BS \/ b = DEL
                      THEN (IF acc = <<>> THEN acc ELSE SubSeq(acc, 1, Len(acc) - 1))
                      ELSE IF IsPrintable(b) THEN Append(acc, b) ELSE acc)

\* the input never holds more characters than the line buffer takes
Fits(in) ==
  \A k \in 1..Len(in) : Len(ApplyEdits(SubSeq(in, 1, k), <<>>)) <= MAX_CMD_LENGTH - 1

\* the text of the line buffer: current_cmd_line[0 .. current_cmd_index - 1]
LineText(line, n) == [i \in 1..n |-> line[i - 1]]

\* the command queue has room for a line of n characters and its terminator
Room(n) == CMD_BUFFER_SIZE - circular_buf_size(cmd_line_buffer) >= n + 1

\* C11: line editing.  A Backspace or DEL consumed with a non-empty line
\* buffer removes exactly the character appended last and leaves the ones
\* before it; so the line completed by a CR or LF is the input since the
\* previous terminator with each erase applied to the character before it,
\* and that line is what the command queue receives when it has room for it
\* (A B BS C CR queues "AC").
C11_LineEditing ==
  [][ (ConCollect /\ ~circular_buf_empty(uart_rx_buffer)) =>
        /\ (NextByte \in {BS, DEL} /\ current_cmd_index > 0) =>
             /\ current_cmd_index' = current_cmd_index - 1
             /\ LineText(current_cmd_line', current_cmd_index')
                  = SubSeq(LineText(current_cmd_line, current_cmd_index), 1, current_cmd_index - 1)
        /\ (NextByte \in {CR, LF} /\ Fits(raw)) =>
             /\ LineText(current_cmd_line, current_cmd_index) = ApplyEdits(raw, <<>>)
             /\ (current_cmd_index > 0 /\ Room(current_cmd_index)) =>
                  CbContents(cmd_line_buffer') =
                    CbContents(cmd_line_buffer) \o ApplyEdits(raw, <<>>) \o <<NUL>> ]_vars

\* a CR is about to complete the line typed as A B BS: the erase has acted
C11_Witness ==
  /\ cpc = "collect"
  /\ ~circular_buf_empty(uart_rx_buffer)
  /\ NextByte = CR
  /\ raw = <<65, 66, BS>>
  /\ current_cmd_index = 1

\* C15: non-blocking console.  A call of ui_process_commands is never at a
\* point where its next step can only repeat until the interrupt context
\* has drained the outbound queue, so it returns after a bounded number of
\* its own steps even when the outbound queue is full; and with no input
\* byte pending and an empty command queue the call changes nothing.
C15_NeverWaitsForIsr ==
  /\ [](~(cpc = "aos_send" /\ aos_p # <<>> /\ circular_buf_full(uart_tx_buffer)))
  /\ [][ ( /\ cpc \in {"collect", "execute"}
           /\ circular_buf_empty(uart_rx_buffer)
           /\ circular_buf_empty(cmd_line_buffer)
           /\ (ConCollect \/ ConExecute) ) =>
         UNCHANGED <<current_cmd_line, current_cmd_index, cmd_line_buffer,
                     uart_rx_buffer, uart_tx_buffer, DREIE, aos_p>> ]_vars

\* the lines of the command queue: its content cut after each NUL
RECURSIVE QueuedLines(_, _)
QueuedLines(s, acc) ==
  IF s = <<>> THEN (IF acc = <<>> THEN <<>> ELSE <<acc>>)
  ELSE IF Head(s) = NUL THEN <<acc>> \o QueuedLines(Tail(s), <<>>)
  ELSE QueuedLines(Tail(s), Append(acc, Head(s)))

\* C16: one invocation of the dispatcher takes at most one command line out
\* of the command queue and calls at most one handler, however many lines
\* are waiting; the lines behind the first stay queued in their order.
C16_OneLinePerInvocation ==
  [][ (ConExecute /\ ~circular_buf_empty(cmd_line_buffer)) =>
        LET before == QueuedLines(CbContents(cmd_line_buffer), <<>>)
            after == QueuedLines(CbContents(cmd_line_buffer'), <<>>)
        IN /\ \/ after = Tail(before)
              \/ /\ Len(after) = Len(before)
                 /\ Tail(after) = Tail(before)
           /\ cmd_line' = SubSeq(Head(before), 1, Len(cmd_line'))
           /\ Len(calls') <= 1 ]_vars

\* two lines were waiting and one invocation has taken the first
C16_Witness ==
  /\ cpc = "aos_send"
  /\ aos_p = StrPrompt
  /\ cmd_line = <<65>>
  /\ CbContents(cmd_line_buffer) = <<66, NUL>>

(***************************************************************************)
(* Claims on the dispatcher                                                *)
(***************************************************************************)
\* the message msg is among the messages of the invocation
Said(msg) == \E i \in 1..Len(out) : out[i] = msg

\* C12: dispatch lookup.  A line whose first token is any upper/lower-case
\* spelling of a registered command name calls the handler of that command
\* exactly once and no other handler; a line whose first token matches no
\* table entry after upper-casing calls no handler and produces the
\* unknown-command message.
C12_DispatchLookup ==
  xpc = "done" =>
    /\ l_reg # "none" =>
         /\ Len(calls) = 1
         /\ calls[1].handler = l_reg
         /\ ~Said("unknown")
    /\ (l_reg = "none" /\ l_name # <<>>) =>
         /\ calls = <<>>
         /\ Said("unknown")

\* the line "help" has been dispatched by the AOS console
C12_Witness ==
  /\ xpc = "done"
  /\ variant = "AOS"
  /\ l_reg = "cmd_help"
  /\ cmd_line = <<104, 101, 108, 112>>
  /\ Len(calls) = 1

\* C17: every dispatcher invocation that has taken a command line out of
\* the command queue ends by re-displaying the prompt, whether the line
\* matched a handler, matched none, or held no command token.
C17_PromptAfterEveryDispatch ==
  xpc = "done" => (out # <<>> /\ out[Len(out)] = "prompt")

\* C18: parameter passing.  The matched handler receives the whole text
\* that follows the command name, without the blanks before and after it
\* and otherwise unchanged (case kept, inner blanks kept), and receives no
\* parameter exactly when only blanks follow the command name.
C18_ParameterPassing ==
  (xpc = "done" /\ l_reg # "none") =>
    /\ Len(calls) = 1
    /\ calls[1].arg = IF l_body = <<>> THEN [null |-> TRUE, text |-> <<>>]
                      ELSE [null |-> FALSE, text |-> l_body]

(***************************************************************************)
(* Claims on the menu                                                      *)
(***************************************************************************)
\* the documented range of the field chosen by F (frequency) or P (position)
FieldMin(c) == IF c = 70 THEN 1 ELSE 0
FieldMax(c) == IF c = 70 THEN 10 ELSE 7

\* the field chosen by c holds x and the other field is as the dialog found it
FieldsAre(c, x) ==
  IF c = 70 THEN freq_hz = x /\ led_pos = p0 ELSE led_pos = x /\ freq_hz = f0

FieldName(c) == IF c = 70 THEN "freq_hz" ELSE "led_pos"

\* d is a non-empty proper prefix of e
ProperPrefix(d, e) == d # <<>> /\ Len(d) < Len(e) /\ d = SubSeq(e, 1, Len(d))

\* the last call printed msg
MenuSaid(msg) == \E i \in 1..Len(m_out) : m_out[i] = msg

\* C13: menu dialog.  From MENU_IDLE, the bytes F, CR, the decimal digits of
\* an in-range v, CR, one per call, make exactly one update, of the
\* frequency and with the value v, change no other field and end in
\* MENU_IDLE; before the last byte nothing is updated.  The same holds for
\* P and the position.
C13_MenuDialog ==
  \A c \in {70, 80} : \A v \in FieldMin(c)..FieldMax(c) :
    /\ dialog = MenuDialog(c, v) =>
         /\ state = "MENU_IDLE"
         /\ upd = <<[field |-> FieldName(c), value |-> v]>>
         /\ FieldsAre(c, v)
    /\ ProperPrefix(dialog, MenuDialog(c, v)) =>
         /\ state # "MENU_IDLE"
         /\ upd = <<>>
         /\ freq_hz = f0 /\ led_pos = p0

\* a second dialog has set the frequency to 10 after the position was moved
C13_Witness ==
  /\ state = "MENU_IDLE"
  /\ dialog = MenuDialog(70, 10)
  /\ freq_hz = 10
  /\ p0 = 7

\* C14: menu clamping.  A decimal value above the maximum of the field (10
\* for the frequency, 7 for the position) is applied as exactly that maximum
\* and a clamping notice is printed; a value inside the range is applied
\* unchanged and without notice.
C14_MenuClamping ==
  \A c \in {70, 80} : \A v \in MenuValues :
    (state = "MENU_IDLE" /\ ~prompt_shown /\ dialog = MenuDialog(c, v)) =>
      /\ v > FieldMax(c) => (FieldsAre(c, FieldMax(c)) /\ MenuSaid("clamped"))
      /\ (v >= FieldMin(c) /\ v <= FieldMax(c)) => (FieldsAre(c, v) /\ ~MenuSaid("clamped"))


(***************************************************************************)
(* Claims on the clock                                                     *)
(***************************************************************************)

IsDigit(c) == c >= 48 /\ c <= 57

\* text reads HH:MM:SS with hours below 24, minutes and seconds below 60
ValidHHMMSS(text) ==
  /\ Len(text) = 8
  /\ text[3] = 58 /\ text[6] = 58
  /\ \A i \in {1, 2, 4, 5, 7, 8} : IsDigit(text[i])
  /\ (text[1] - 48) * 10 + (text[2] - 48) < 24
  /\ (text[4] - 48) * 10 + (text[5] - 48) < 60
  /\ (text[7] - 48) * 10 + (text[8] - 48) < 60

\* the handler of a SET or ALARM line is about to run on a parameter
Malformed ==
  /\ tpc = "call"
  /\ t_handler \in {"cmd_set_time", "cmd_set_alarm"}
  /\ ~t_arg.null
  /\ ~ValidHHMMSS(t_arg.text)

\* C19: a SET or ALARM line whose parameter is not a valid HH:MM:SS time
\* (wrong shape, hours >= 24, minutes >= 60 or seconds >= 60) makes its
\* handler print the error message and return with current_time,
\* alarm_time, alarm_set and alarm_triggered unchanged and interrupts
\* enabled, the console ready for the next line.
C19_MalformedTimeRejected ==
  [][(Malformed /\ tpc' # tpc) =>
       /\ t_msg' = "invalid"
       /\ tpc' = "idle"
       /\ SREG_I'
       /\ UNCHANGED timeshared]_vars

\* the handler is between its cli() and the end of its sei()
InCriticalSection ==
  tpc \in {"hours", "minutes", "seconds", "alarm_set", "alarm_triggered", "sei"}

\* C20: the SET and ALARM handlers write current_time / alarm_time and the
\* alarm flags with interrupts masked: from after cli() until sei() the
\* global interrupt enable bit is clear and the RTC tick ISR does not run,
\* so it never meets a partially written value; outside of that, and from
\* sei() on, interrupts are enabled.
C20_CriticalSection ==
  /\ [](InCriticalSection => ~SREG_I)
  /\ [](~InCriticalSection => SREG_I)
  /\ [][rtc_interrupt_count' # rtc_interrupt_count => ~InCriticalSection]_vars

\* SET is halfway through its stores on a running clock: hours and
\* minutes are the new ones, seconds still the old, interrupts masked
C20_Witness ==
  /\ tpc = "seconds"
  /\ t_handler = "cmd_set_time"
  /\ rtc_interrupt_count > 0
  /\ ~SREG_I
  /\ current_time.hours = new_time.hours
  /\ current_time.minutes = new_time.minutes
  /\ current_time.seconds # new_time.seconds
  /\ current_time.hours # 0


(***************************************************************************)
(* Claims on the arming of the DRE interrupt                               *)
(***************************************************************************)

\* a step of the receive side: the RXC ISR or uart_receive_char
RxSideStep == rxvars' # rxvars

\* C21: the DRE interrupt goes from disarmed to armed only in the arming
\* statement of a uart_send_char whose put succeeded, and from armed to
\* disarmed only in a run of the DRE ISR that finds the outbound queue
\* empty; the put of a send, the return of a failed send and every step of
\* the receive side leave it as it is.
C21_ArmDisarmProtocol ==
  [][ /\ (~DREIE /\ DREIE') => (pc = "arm" /\ success /\ pc' = "idle")
      /\ (DREIE /\ ~DREIE') =>
           /\ txev' = [op |-> "isr", ok |-> FALSE]
           /\ circular_buf_empty(uart_tx_buffer)
           /\ wire' = wire
      /\ (pc = "idle" /\ pc' = "arm") => DREIE' = DREIE
      /\ (pc = "arm" /\ ~success /\ pc' = "idle") => DREIE' = DREIE
      /\ RxSideStep => DREIE' = DREIE ]_vars

\* bytes have been received and read, a full queue of bytes has been sent,
\* and after the queue was drained the ISR has found it empty and disarmed
C21_Witness ==
  /\ ~DREIE
  /\ txev = [op |-> "isr", ok |-> FALSE]
  /\ Len(wire) = UART_BUFFER_SIZE
  /\ Len(sent) = UART_BUFFER_SIZE
  /\ Len(rxout) = MaxUartRecv


\* C22: whenever the main loop is not between the put and the arming
\* statement of uart_send_char, a non-empty outbound queue has the DRE
\* interrupt armed; a full outbound queue has it armed at every point.
C22_NonEmptyQueueIsArmed ==
  /\ (pc = "idle" /\ ~circular_buf_empty(uart_tx_buffer)) => DREIE
  /\ circular_buf_full(uart_tx_buffer) => DREIE

\* a send has just failed on a full queue whose interrupt is armed, after
\* the ISR has transmitted bytes
C22_Witness ==
  /\ pc = "idle"
  /\ txev = [op |-> "return", ok |-> FALSE]
  /\ circular_buf_full(uart_tx_buffer)
  /\ DREIE
  /\ Len(wire) > 0


(***************************************************************************)
(* Claims on the line assembler                                            *)
(***************************************************************************)

\* an iteration of collect_uart_input that consumes a byte
Consumes == ConCollect /\ ~circular_buf_empty(uart_rx_buffer)

\* only printable bytes have been consumed since the last CR/LF
RawPrintable == \A i \in 1..Len(raw) : IsPrintable(raw[i])

\* C23: the line cursor never exceeds MAX_CMD_LENGTH-1; a printable byte
\* consumed when the cursor equals MAX_CMD_LENGTH-1 leaves line buffer,
\* cursor and command queue unchanged and sends nothing but its echo; the
\* CR or LF after more than MAX_CMD_LENGTH-1 printable bytes queues the
\* first MAX_CMD_LENGTH-1 of them and the terminator (given room for them).
C23_LineBufferBound ==
  /\ [](current_cmd_index <= MAX_CMD_LENGTH - 1)
  /\ [][ /\ (Consumes /\ IsPrintable(NextByte) /\ current_cmd_index = MAX_CMD_LENGTH - 1) =>
              /\ UNCHANGED <<current_cmd_line, current_cmd_index, cmd_line_buffer>>
              /\ cpc' = "collect"
              /\ uart_tx_buffer' = uart_send_char(uart_tx_buffer, DREIE, NextByte).buf
         /\ (Consumes /\ NextByte \in {CR, LF} /\ RawPrintable
               /\ Len(raw) > MAX_CMD_LENGTH - 1 /\ Room(MAX_CMD_LENGTH - 1)) =>
              CbContents(cmd_line_buffer') =
                CbContents(cmd_line_buffer) \o SubSeq(raw, 1, MAX_CMD_LENGTH - 1) \o <<NUL>> ]_vars

\* MAX_CMD_LENGTH printable bytes have been consumed on an empty line: the
\* last one was dropped, the cursor stands at MAX_CMD_LENGTH-1
C23_Witness ==
  /\ Len(raw) = MAX_CMD_LENGTH
  /\ RawPrintable
  /\ current_cmd_index = MAX_CMD_LENGTH - 1
  /\ \A i \in 1..(MAX_CMD_LENGTH - 1) : current_cmd_line[i - 1] = raw[i]
  /\ cpc = "collect"


\* C24: with an empty line buffer, consuming a CR, LF, Backspace or DEL
\* changes nothing: line buffer, cursor, command queue and outbound queue
\* are as before.
C24_EmptyLineNoOp ==
  [][ (Consumes /\ current_cmd_index = 0 /\ NextByte \in {CR, LF, BS, DEL}) =>
        UNCHANGED <<current_cmd_line, current_cmd_index, cmd_line_buffer, uart_tx_buffer>> ]_vars


\* a byte that is neither CR, LF, Backspace, DEL nor printable ASCII 0x20..0x7E
Ignorable(b) == b \notin {CR, LF, BS, DEL} /\ ~(b >= 32 /\ b <= 126)

\* C25: consuming a byte that is neither CR, LF, Backspace, DEL nor
\* printable ASCII leaves the line buffer's content, the cursor and the
\* command queue unchanged, and the line assembler goes on with the next
\* byte.
C25_OtherBytesIgnored ==
  [][ (Consumes /\ Ignorable(NextByte)) =>
        /\ UNCHANGED <<current_cmd_line, current_cmd_index, cmd_line_buffer>>
        /\ cpc' = "collect" ]_vars

\* a byte without meaning has been consumed behind a letter, which is
\* still the line
C25_Witness ==
  /\ Len(raw) = 2
  /\ IsPrintable(raw[1])
  /\ Ignorable(raw[2])
  /\ raw[2] >= 128
  /\ current_cmd_index = 1
  /\ current_cmd_line[0] = raw[1]


\* C26: a completed line enters the command queue as a unit.  The CR or LF
\* that completes a line either appends all its characters and then NUL to
\* the command queue or leaves the queue unchanged, whatever the free
\* space; the queue never ends with characters that lack their terminator.
C26_LineQueuedAsUnit ==
  /\ [](LET q == CbContents(cmd_line_buffer) IN q = <<>> \/ q[Len(q)] = NUL)
  /\ [][ (Consumes /\ NextByte \in {CR, LF} /\ current_cmd_index > 0) =>
           LET line == LineText(current_cmd_line, current_cmd_index) IN
             \/ CbContents(cmd_line_buffer') = CbContents(cmd_line_buffer) \o line \o <<NUL>>
             \/ cmd_line_buffer' = cmd_line_buffer ]_vars


\* the number of characters before the first NUL of s; Len(s) + 1 without NUL
RECURSIVE FrontLineLen(_)
FrontLineLen(s) ==
  IF s = <<>> THEN 1
  ELSE IF Head(s) = NUL THEN 0
  ELSE 1 + FrontLineLen(Tail(s))

\* C27: an execute_next_command call that finds a line of 1 to
\* MAX_CMD_LENGTH-1 characters and its NUL at the front of the command
\* queue takes exactly these out: cmd_line is the line, and the queue
\* afterwards starts with the first character of the next line.
C27_ExtractionRemovesLine ==
  [][ LET q == CbContents(cmd_line_buffer)
          n == FrontLineLen(q)
      IN (ConExecute /\ n >= 1 /\ n <= MAX_CMD_LENGTH - 1 /\ n < Len(q)) =>
           /\ cmd_line' = SubSeq(q, 1, n)
           /\ CbContents(cmd_line_buffer') = SubSeq(q, n + 2, Len(q)) ]_vars


(***************************************************************************)
(* Claims on the console from end to end                                   *)
(***************************************************************************)

\* the lines with at least one character among the lines of the queue
QueuedNonEmpty ==
  SelectSeq(QueuedLines(CbContents(cmd_line_buffer), <<>>), LAMBDA l : l # <<>>)

\* C28: as long as the command queue has never been full, the lines
\* dispatched (a handler call or an unknown-command report) are the
\* non-empty lines completed by the line assembler, in their order: every
\* dispatch is of the oldest completed line not yet dispatched, and the
\* completed lines not yet dispatched are exactly the lines waiting in the
\* command queue, so that none is lost, duplicated, split or merged.
C28_EndToEndOrder ==
  /\ [](~was_full => pending = QueuedNonEmpty)
  /\ [][ (ConExecute /\ ~circular_buf_empty(cmd_line_buffer) /\ cmd_line' # <<>> /\ ~was_full
            /\ (calls' # <<>> \/ \E k \in 1..Len(out') : out'[k] = "unknown")) =>
           /\ pending # <<>>
           /\ cmd_line' = Head(pending) ]_vars


(***************************************************************************)
(* Claims on the menu's states                                             *)
(***************************************************************************)

\* a call of prompt_and_handle_menu that takes a byte
Takes == MenuCall /\ ~circular_buf_empty(uart_rx_buffer)

\* the call has printed msg
MenuSays(msg) == \E i \in 1..Len(m_out') : m_out'[i] = msg

\* C29: in MENU_WAIT_CHOICE a CR or LF with a non-empty scratch buffer
\* looks at the first buffered character only: F or f leads to
\* MENU_WAIT_FREQ and P or p to MENU_WAIT_POS, each with the scratch buffer
\* cleared and its sub-prompt printed; any other first character is
\* reported as unrecognized and leads to MENU_IDLE.  No field changes.
C29_ChoiceRouting ==
  [][ (Takes /\ state = "MENU_WAIT_CHOICE" /\ NextByte \in {CR, LF} /\ input_index > 0) =>
        /\ UNCHANGED <<freq_hz, led_pos>>
        /\ IF input_buffer[0] \in {70, 102}
             THEN /\ state' = "MENU_WAIT_FREQ"
                  /\ input_index' = 0
                  /\ input_buffer' = ClearedBuffer
                  /\ MenuSays("freq_prompt")
           ELSE IF input_buffer[0] \in {80, 112}
             THEN /\ state' = "MENU_WAIT_POS"
                  /\ input_index' = 0
                  /\ input_buffer' = ClearedBuffer
                  /\ MenuSays("pos_prompt")
           ELSE /\ state' = "MENU_IDLE"
                /\ MenuSays("unrecognized") ]_vars

\* f, then more characters, then a terminator: the menu waits for the
\* frequency with a cleared scratch buffer
C29_Witness ==
  /\ state = "MENU_WAIT_FREQ"
  /\ Len(dialog) = 3
  /\ dialog[1] = 102
  /\ dialog[2] \in {80, 120}
  /\ dialog[3] \in {CR, LF}
  /\ input_index = 0
  /\ MenuSaid("freq_prompt")

\* C30: in MENU_IDLE any received byte becomes the first character of a
\* freshly cleared scratch buffer and the state becomes MENU_WAIT_CHOICE;
\* no field changes.
C30_IdleTakesAnyByte ==
  [][ (Takes /\ state = "MENU_IDLE") =>
        /\ state' = "MENU_WAIT_CHOICE"
        /\ input_index' = 1
        /\ input_buffer'[0] = NextByte
        /\ \A i \in 1..(INPUT_BUFFER_SIZE - 1) : input_buffer'[i] = NUL
        /\ UNCHANGED <<freq_hz, led_pos>> ]_vars

\* the menu has taken a terminator, typed first, as the first character of
\* a choice, after the prompt had been shown
C30_Witness ==
  /\ state = "MENU_WAIT_CHOICE"
  /\ dialog = <<CR>>
  /\ input_buffer = [ClearedBuffer EXCEPT ![0] = CR]
  /\ input_index = 1
  /\ prompt_shown = FALSE
  /\ m_out = <<"echo">>

\* C31 as stated: in every state a CR or LF that arrives when no character
\* has been entered since the state was entered (in MENU_IDLE: any CR or
\* LF; elsewhere: the scratch buffer is empty) leaves the state, the
\* scratch buffer and both fields unchanged and reports no error.
C31_EmptyInputNoOp ==
  [][ (Takes /\ NextByte \in {CR, LF} /\ (state = "MENU_IDLE" \/ input_index = 0)) =>
        /\ UNCHANGED <<state, input_buffer, input_index, freq_hz, led_pos>>
        /\ ~MenuSays("unrecognized")
        /\ ~MenuSays("clamped") ]_vars

\* C31 amended: in MENU_WAIT_CHOICE, MENU_WAIT_FREQ and MENU_WAIT_POS a CR
\* or LF that arrives while the scratch buffer is empty leaves the state,
\* the scratch buffer, the prompt flag and both fields unchanged, and the
\* call prints the echo of the byte and nothing else.
C31_EmptyInputNoOpOutsideIdle ==
  [][ (Takes /\ NextByte \in {CR, LF} /\ state # "MENU_IDLE" /\ input_index = 0) =>
        /\ UNCHANGED <<state, input_buffer, input_index, prompt_shown, freq_hz, led_pos>>
        /\ m_out' = <<"echo">> ]_vars

\* F, CR, and then two more terminators on the empty frequency field: the
\* menu still waits for the frequency and nothing has changed
C31_Witness ==
  /\ state = "MENU_WAIT_FREQ"
  /\ Len(dialog) = 4
  /\ dialog[1] = 70
  /\ \A k \in 2..4 : dialog[k] \in {CR, LF}
  /\ input_index = 0
  /\ input_buffer = ClearedBuffer
  /\ freq_hz = 2
  /\ led_pos = 0
  /\ m_out = <<"echo">>

\* the transitions of the menu's state
MenuEdges ==
  { <<"MENU_IDLE", "MENU_WAIT_CHOICE">>,
    <<"MENU_WAIT_CHOICE", "MENU_WAIT_FREQ">>,
    <<"MENU_WAIT_CHOICE", "MENU_WAIT_POS">>,
    <<"MENU_WAIT_CHOICE", "MENU_IDLE">>,
    <<"MENU_WAIT_FREQ", "MENU_IDLE">>,
    <<"MENU_WAIT_POS", "MENU_IDLE">> }

\* C32: a call of the menu handler takes no byte from an empty inbound
\* queue and exactly the oldest byte from a non-empty one, whatever waits
\* behind it; the state stays or moves along one transition; with no byte
\* pending the state, the scratch buffer and both fields are unchanged.
C32_OneBytePerCall ==
  [][ MenuCall =>
        /\ IF circular_buf_empty(uart_rx_buffer)
             THEN /\ uart_rx_buffer' = uart_rx_buffer
                  /\ UNCHANGED <<state, input_buffer, input_index, freq_hz, led_pos>>
             ELSE /\ CbContents(uart_rx_buffer') = Tail(CbContents(uart_rx_buffer))
                  /\ dialog' = (IF state = "MENU_IDLE" THEN <<>> ELSE dialog) \o <<NextByte>>
        /\ (state' = state \/ <<state, state'>> \in MenuEdges) ]_vars

\* the first call that found a byte has taken the F alone, and the CR and
\* the 1 sent with it still wait in the inbound queue
C32_Witness ==
  /\ state = "MENU_WAIT_CHOICE"
  /\ dialog = <<70>>
  /\ input_index = 1
  /\ CbContents(uart_rx_buffer) = <<CR, 49>>
  /\ script = <<>>
  /\ m_out = <<"menu_prompt", "echo">>

\* C33: the top-level prompt is printed once for each entry into MENU_IDLE,
\* the initial one included: never twice, however often the handler is
\* polled, and always by the first call made in MENU_IDLE; a call made in
\* MENU_WAIT_CHOICE, MENU_WAIT_FREQ or MENU_WAIT_POS never prints it.
C33_PromptOncePerIdle ==
  /\ [](prompts <= 1)
  /\ [][ MenuCall =>
           /\ state = "MENU_IDLE" => prompts + (IF MenuSays("menu_prompt") THEN 1 ELSE 0) = 1
           /\ state # "MENU_IDLE" => ~MenuSays("menu_prompt") ]_vars

\* a frequency was set, MENU_IDLE was entered again, its prompt was printed
\* and a later call without input has printed nothing
C33_Witness ==
  /\ state = "MENU_IDLE"
  /\ Len(upd) = 1
  /\ prompt_shown
  /\ prompts = 1
  /\ m_out = <<>>
  /\ circular_buf_empty(uart_rx_buffer)
  /\ script = <<>>

\* C34: whatever bytes the menu is fed, the frequency stays within 1..10
\* and the position within 0..7, and a field changes only in a call that
\* takes a CR or LF in the state that waits for that field.
C34_FieldsInRange ==
  /\ [](freq_hz \in 1..10 /\ led_pos \in 0..7)
  /\ [][ /\ freq_hz' # freq_hz =>
              (Takes /\ state = "MENU_WAIT_FREQ" /\ NextByte \in {CR, LF})
         /\ led_pos' # led_pos =>
              (Takes /\ state = "MENU_WAIT_POS" /\ NextByte \in {CR, LF}) ]_vars

\* F, CR, x, CR: the text x reads as 0, below the range, and the frequency
\* went from 2 to 1
C34_Witness ==
  /\ state = "MENU_IDLE"
  /\ dialog = <<70, CR, 120, CR>>
  /\ f0 = 2
  /\ freq_hz = 1
  /\ led_pos = 0
  /\ upd = <<[field |-> "freq_hz", value |-> 1]>>

\* C35: the scratch buffer.  After the first character (taken in MENU_IDLE)
\* a byte is appended only if it is printable and the buffer is not full;
\* the write index never exceeds the last cell but one; a byte that is no
\* terminator and arrives at that index is discarded and nothing changes;
\* and the text a field state parses has a NUL behind it.
C35_ScratchBuffer ==
  /\ [](input_index <= INPUT_BUFFER_SIZE - 1)
  /\ [][ (Takes /\ state # "MENU_IDLE") =>
           /\ (input_buffer' # input_buffer \/ input_index' # input_index) =>
                \/ /\ input_buffer' = ClearedBuffer
                   /\ input_index' = 0
                \/ /\ IsPrintable(NextByte)
                   /\ input_index < INPUT_BUFFER_SIZE - 1
                   /\ input_buffer' = [input_buffer EXCEPT ![input_index] = NextByte]
                   /\ input_index' = input_index + 1
           /\ (input_index = INPUT_BUFFER_SIZE - 1 /\ NextByte \notin {CR, LF}) =>
                UNCHANGED <<state, input_buffer, input_index, freq_hz, led_pos>>
           /\ (state \in {"MENU_WAIT_FREQ", "MENU_WAIT_POS"} /\ NextByte \in {CR, LF}) =>
                \E k \in 0..(INPUT_BUFFER_SIZE - 1) : input_buffer[k] = NUL ]_vars

\* text is a decimal integer: one or more digits
Decimal(text) == text # <<>> /\ \A k \in 1..Len(text) : IsDigit(text[k])

\* C36: when a field state takes a CR or LF and the buffered text, made of
\* printable characters, is not a decimal integer, the call prints a notice
\* besides the echo and the confirmation, and the state returns to
\* MENU_IDLE: the text is not applied as a value without a notice.
C36_NonDecimalReported ==
  [][ (Takes /\ state \in {"MENU_WAIT_FREQ", "MENU_WAIT_POS"} /\ NextByte \in {CR, LF}
         /\ input_index > 0
         /\ \A k \in 0..(input_index - 1) : IsPrintable(input_buffer[k])
         /\ ~Decimal(CString(input_buffer, 0))) =>
        /\ state' = "MENU_IDLE"
        /\ \E k \in 1..Len(m_out') : m_out'[k] \notin {"echo", "ok"} ]_vars

(***************************************************************************)
(* Claims on aos_send                                                      *)
(***************************************************************************)
\* C37: a call of aos_send eventually returns, given that the DRE ISR runs
\* while its interrupt is armed; and when it returns, the bytes the call
\* has put into the outbound queue are exactly the characters of its
\* string, each once and in order.
C37_AosSendReturns ==
  /\ (cpc = "aos_send") ~> (cpc = "collect")
  /\ [][ (cpc = "aos_send" /\ cpc' = "collect") =>
           sent = [k \in 1..str_n |-> Str(k)] ]_vars

\* aos_send is about to return from a string longer than the outbound
\* queue: all its characters went in, so it has waited for the ISR
C37_Witness ==
  /\ cpc = "aos_send"
  /\ pc = "idle"
  /\ aos_p = <<>>
  /\ str_n = UART_BUFFER_SIZE + 2
  /\ Len(sent) = str_n
  /\ circular_buf_full(uart_tx_buffer)

(***************************************************************************)
(* Claims on the display of the clock                                      *)
(***************************************************************************)
\* C38: the hours, minutes and seconds that ui_display_time has read for
\* its output are together a value that current_time has held at some
\* instant, whenever the RTC tick ISR runs.
C38_DisplayedTimeWasHeld ==
  (tpc = "read" /\ \A f \in {"hours", "minutes", "seconds"} : t_shown[f] # -1) =>
    t_shown \in held

(***************************************************************************)
(* Claims on the handlers' parameter                                       *)
(***************************************************************************)
\* C39: when a line holds a command name only, so that the handler is
\* called with no parameter string, the handler does not read through the
\* missing parameter: it leaves params unused or tests it before use (and
\* then reports the usage), and the dispatch ends with the prompt.
C39_NoParameterHandled ==
  (xpc = "done" /\ calls # <<>> /\ calls[1].arg.null) =>
    /\ params_use(calls[1].handler) \in {"unused", "tested"}
    /\ out # <<>> /\ out[Len(out)] = "prompt"

====
